---- MODULE Spec2Model ----
(***************************************************************************)
(* A model of the epic-mickey-lib-rs byte cursor (file_manipulator.rs) and *)
(* of the Packfile codec built on it (packfile.rs).                        *)
(*                                                                         *)
(* A FileManipulator is a record [data, pos, endian, write_mode, ok].      *)
(* data is the Vec<u8> (a sequence of 0..255, index i+1 holding byte i),   *)
(* pos the cursor, ok = FALSE once an operation has panicked (the call     *)
(* never returns and the cursor is not used again).  Every operation is an *)
(* operator from a cursor to a cursor (readers return [fm, val]).          *)
(* Strings are modelled by their UTF-8 bytes.                              *)
(***************************************************************************)
EXTENDS Integers, Sequences, FiniteSets, TLC

VARIABLES
    fm,     \* the FileManipulator under test
    last,   \* the last operation applied to fm: [op, arg, pre, ret]
    nops,   \* number of operations applied to fm since construction
    pc,     \* position inside a scripted scenario
    inp,    \* the inputs the scenario was started with
    mark,   \* a cursor position the scenario remembered (tell())
    pak,    \* the Packfile object
    bin     \* the bytes Packfile::to_binary returned

vars == <<fm, last, nops, pc, inp, mark, pak, bin>>

(***************************************************************************)
(* Bounds of the model.                                                    *)
(***************************************************************************)
\* longest buffer a cursor of the free-running specification may grow to
MaxLen == 8
\* operations applied to one cursor in the free-running specification
MaxOps == 2
\* longest text handed to the string writers
MaxStr == 2

(***************************************************************************)
(* Sequence helpers.                                                       *)
(***************************************************************************)
Zeros(n) == [i \in 1..n |-> 0]

Reverse(s) == [i \in 1..Len(s) |-> s[Len(s) + 1 - i]]

(***************************************************************************)
(* Integers.  TLC's integers are 32-bit, so a u16 .. u128 or i16 .. i128   *)
(* value is modelled by its digits in base 256, most significant first     *)
(* (two's complement for the signed types): 0x01020304u32 is <<1,2,3,4>>   *)
(* and -2i16 is <<255,254>>.  A u8 is a number in 0..255.  Dig and Num     *)
(* convert between digits and the numbers the code computes with.          *)
(***************************************************************************)
Pow256(k) == IF k = 0 THEN 1 ELSE IF k = 1 THEN 256 ELSE IF k = 2 THEN 65536 ELSE 16777216

\* the w digits of n, for 0 <= n < 2^31
Dig(n, w) == [i \in 1..w |-> IF w - i > 3 THEN 0 ELSE (n \div Pow256(w - i)) % 256]

RECURSIVE Num(_)
\* the number with digits d
Num(d) == IF Len(d) = 0 THEN 0 ELSE 256 * Num(SubSeq(d, 1, Len(d) - 1)) + d[Len(d)]

\* uN::to_be_bytes: the digits, most significant first
to_be_bytes(value) == value

\* uN::to_le_bytes: the digits, least significant first
to_le_bytes(value) == Reverse(value)

from_be_bytes(b) == b

from_le_bytes(b) == Reverse(b)

(***************************************************************************)
(* String::from_utf8: well-formed UTF-8 (the Unicode Standard, table 3-7). *)
(***************************************************************************)
IsCont(b) == b >= 128 /\ b <= 191

\* length of the well-formed UTF-8 sequence starting at b[i], 0 if none
Utf8CharLen(b, i) ==
    LET n == Len(b)
        c == b[i]
        c1 == IF i + 1 <= n THEN b[i + 1] ELSE 0
        c2 == IF i + 2 <= n THEN b[i + 2] ELSE 0
        c3 == IF i + 3 <= n THEN b[i + 3] ELSE 0
    IN  IF c <= 127 THEN 1
        ELSE IF c >= 194 /\ c <= 223 THEN (IF IsCont(c1) THEN 2 ELSE 0)
        ELSE IF c = 224 THEN (IF c1 >= 160 /\ c1 <= 191 /\ IsCont(c2) THEN 3 ELSE 0)
        ELSE IF c = 237 THEN (IF c1 >= 128 /\ c1 <= 159 /\ IsCont(c2) THEN 3 ELSE 0)
        ELSE IF c >= 225 /\ c <= 239 THEN (IF IsCont(c1) /\ IsCont(c2) THEN 3 ELSE 0)
        ELSE IF c = 240 THEN
            (IF c1 >= 144 /\ c1 <= 191 /\ IsCont(c2) /\ IsCont(c3) THEN 4 ELSE 0)
        ELSE IF c >= 241 /\ c <= 243 THEN
            (IF IsCont(c1) /\ IsCont(c2) /\ IsCont(c3) THEN 4 ELSE 0)
        ELSE IF c = 244 THEN
            (IF c1 >= 128 /\ c1 <= 143 /\ IsCont(c2) /\ IsCont(c3) THEN 4 ELSE 0)
        ELSE 0

RECURSIVE Utf8From(_, _)
Utf8From(b, i) ==
    IF i > Len(b) THEN TRUE
    ELSE LET k == Utf8CharLen(b, i)
         IN  k > 0 /\ Utf8From(b, i + k)

from_utf8_ok(b) == Utf8From(b, 1)

(***************************************************************************)
(* FileManipulator (file_manipulator.rs).                                  *)
(***************************************************************************)
new(data, endian, write_mode) ==
    [data |-> data, pos |-> 0, endian |-> endian, write_mode |-> write_mode,
     ok |-> TRUE]

\* a panic: the operation does not return
Panic(f) == [f EXCEPT !.ok = FALSE]

move_pos(f, amount) ==
    IF ~f.ok THEN f
    ELSE LET new_pos == f.pos + amount
         IN  IF new_pos < 0 \/ new_pos > Len(f.data)
             THEN Panic(f)
             ELSE [f EXCEPT !.pos = new_pos]

\* mutant of write: the bytes are appended at the end, whatever the cursor
write_at_end(f, buffer) ==
    IF ~f.ok THEN f
    ELSE LET grown == [f EXCEPT !.data = f.data \o buffer]
         IN  IF f.pos + Len(buffer) > Len(grown.data) THEN Panic(grown)
             ELSE [grown EXCEPT !.pos = f.pos + Len(buffer)]

write(f, buffer) ==
    IF ~f.ok THEN f
    ELSE IF f.write_mode = "OVERWRITE" THEN
        LET pos == f.pos
            padding == IF pos + Len(buffer) > Len(f.data)
                       THEN pos + Len(buffer) - Len(f.data) ELSE 0
            padded == f.data \o Zeros(padding)
            written == SubSeq(padded, 1, pos) \o buffer
                           \o SubSeq(padded, pos + Len(buffer) + 1, Len(padded))
        IN  move_pos([f EXCEPT !.data = written], Len(buffer))
    ELSE
        \* Vec::split_off panics when at > len
        IF f.pos > Len(f.data) THEN Panic(f)
        ELSE LET head == SubSeq(f.data, 1, f.pos)
                 tail == SubSeq(f.data, f.pos + 1, Len(f.data))
             IN  move_pos([f EXCEPT !.data = head \o buffer \o tail], Len(buffer))

write_byte(f, byte) ==
    IF ~f.ok THEN f
    ELSE move_pos([f EXCEPT !.data = Append(f.data, byte)], 1)

read_byte(f) ==
    IF ~f.ok THEN [fm |-> f, val |-> 0]
    ELSE IF f.pos >= Len(f.data) THEN [fm |-> Panic(f), val |-> 0]
    ELSE [fm |-> move_pos(f, 1), val |-> f.data[f.pos + 1]]

\* read into a buffer of len bytes
read(f, len) ==
    IF ~f.ok THEN [fm |-> f, val |-> <<>>]
    ELSE IF f.pos > Len(f.data) \/ len > Len(f.data) - f.pos
         THEN [fm |-> Panic(f), val |-> <<>>]
    ELSE [fm |-> move_pos(f, len), val |-> SubSeq(f.data, f.pos + 1, f.pos + len)]

\* mutant of seek: the zero-extension past the end is forgotten
seek_no_extend(f, pos) == IF ~f.ok THEN f ELSE [f EXCEPT !.pos = pos]

seek(f, pos) ==
    IF ~f.ok THEN f
    ELSE LET padding == IF pos > Len(f.data) THEN pos - Len(f.data) ELSE 0
         IN  [f EXCEPT !.data = f.data \o Zeros(padding), !.pos = pos]

align(f, num) ==
    IF ~f.ok THEN f
    ELSE IF num = 0 THEN Panic(f)
    ELSE IF (f.pos % num) # 0 THEN move_pos(f, num - (f.pos % num))
    ELSE f

RECURSIVE write_bytes(_, _, _)
\* for _ in 0..count { self.write_byte(byte) }
write_bytes(f, byte, count) ==
    IF count <= 0 THEN f
    ELSE write_bytes(write_byte(f, byte), byte, count - 1)

pad(f, amount) ==
    IF ~f.ok THEN f
    ELSE IF amount = 0 THEN Panic(f)
    ELSE write_bytes(f, 0, amount - (f.pos % amount))

size(f) == Len(f.data)

(***************************************************************************)
(* Typed writers and readers.  Each integer writer picks to_be_bytes or    *)
(* to_le_bytes by the cursor's endian and hands the bytes to write; each   *)
(* reader reads the bytes with read and converts them back.                *)
(***************************************************************************)
w_int(f, value) ==
    write(f, IF f.endian = "BIG" THEN to_be_bytes(value) ELSE to_le_bytes(value))

\* data: u8
w_u8(f, data) == w_int(f, <<data>>)
\* data: i8, -128..127
w_s8(f, data) == w_int(f, <<data % 256>>)
w_u16(f, data) == w_int(f, data)
w_s16(f, data) == w_int(f, data)
w_u32(f, data) == w_int(f, data)
w_s32(f, data) == w_int(f, data)
w_u64(f, data) == w_int(f, data)
w_s64(f, data) == w_int(f, data)
w_u128(f, data) == w_int(f, data)
w_s128(f, data) == w_int(f, data)

\* the filler byte of a JPS-padded integer; -1 stands for panic!("Invalid mode")
jps_filler(mode) == IF mode = 0 THEN 205 ELSE IF mode = 1 THEN 255 ELSE -1

w_u16_jps(f, value, mode) ==
    LET f1 == w_u16(f, value)
    IN  IF jps_filler(mode) < 0 THEN Panic(f1)
        ELSE write_bytes(f1, jps_filler(mode), 2)

w_s16_jps(f, value, mode) ==
    LET f1 == w_s16(f, value)
    IN  IF jps_filler(mode) < 0 THEN Panic(f1)
        ELSE write_bytes(f1, jps_filler(mode), 2)

w_str(f, text) == write(f, text)

w_str_null(f, text) == write_byte(write(f, text), 0)

w_bool(f, value) == write_bytes(f, IF value THEN 255 ELSE 0, 4)

RECURSIVE round_up_4(_)
\* while (size % 4) != 0 { size += 1 }
round_up_4(sz) == IF sz % 4 # 0 THEN round_up_4(sz + 1) ELSE sz

\* mutant of w_str_jps: the trailing padding is forgotten
w_str_jps_no_padding(f, text) ==
    LET text_length == IF Len(text) > 0 THEN Len(text) + 1 ELSE 0
        sz == round_up_4(text_length + 2)
    IN  w_str_null(w_u8(w_u8(f, sz % 256), text_length % 256), text)

w_str_jps(f, text) ==
    LET text_length == IF Len(text) > 0 THEN Len(text) + 1 ELSE 0
        sz == round_up_4(text_length + 2)
        f1 == w_u8(f, sz % 256)
        f2 == w_u8(f1, text_length % 256)
        f3 == w_str_null(f2, text)
        padding == IF text_length > 0 THEN sz - text_length - 2 ELSE 1
    IN  write_bytes(f3, 0, padding)

r_int(f, w) ==
    LET r == read(f, w)
    IN  [fm |-> r.fm,
         val |-> IF ~r.fm.ok THEN <<>>
                 ELSE IF f.endian = "BIG" THEN from_be_bytes(r.val)
                 ELSE from_le_bytes(r.val)]

r_u8(f) == read_byte(f)

\* byte as i8
r_s8(f) ==
    LET r == read_byte(f)
    IN  [fm |-> r.fm, val |-> IF r.val >= 128 THEN r.val - 256 ELSE r.val]

r_u16(f) == r_int(f, 2)
r_s16(f) == r_int(f, 2)
r_u32(f) == r_int(f, 4)
r_s32(f) == r_int(f, 4)
r_u64(f) == r_int(f, 8)
r_s64(f) == r_int(f, 8)
r_u128(f) == r_int(f, 16)
r_s128(f) == r_int(f, 16)

r_u16_jps(f) == LET r == r_u16(f) IN [fm |-> move_pos(r.fm, 2), val |-> r.val]

r_s16_jps(f) == LET r == r_s16(f) IN [fm |-> move_pos(r.fm, 2), val |-> r.val]

RECURSIVE read_bytes(_, _, _)
\* for _ in 0..length { buffer.push(self.read_byte()) }
read_bytes(f, length, buffer) ==
    IF length <= 0 \/ ~f.ok THEN [fm |-> f, val |-> buffer]
    ELSE LET r == read_byte(f)
         IN  read_bytes(r.fm, length - 1, IF r.fm.ok THEN Append(buffer, r.val) ELSE buffer)

\* String::from_utf8(buffer).unwrap()
unwrap_utf8(r) ==
    IF r.fm.ok /\ ~from_utf8_ok(r.val) THEN [fm |-> Panic(r.fm), val |-> r.val] ELSE r

r_str(f, length) == unwrap_utf8(read_bytes(f, length, <<>>))

RECURSIVE read_until_null(_, _)
\* loop { let byte = self.read_byte(); if byte == 0 { break; } buffer.push(byte); }
read_until_null(f, buffer) ==
    IF ~f.ok THEN [fm |-> f, val |-> buffer]
    ELSE LET r == read_byte(f)
         IN  IF ~r.fm.ok THEN [fm |-> r.fm, val |-> buffer]
             ELSE IF r.val = 0 THEN [fm |-> r.fm, val |-> buffer]
             ELSE read_until_null(r.fm, Append(buffer, r.val))

r_str_null(f) == unwrap_utf8(read_until_null(f, <<>>))

r_str_jps(f) ==
    LET sz == r_u8(f)
        text_length == r_u8(sz.fm)
        text == r_str_null(text_length.fm)
    IN  [fm |-> align(text.fm, 4), val |-> text.val]

r_bool(f) ==
    LET r == read_bytes(f, 4, <<>>)
    IN  [fm |-> r.fm, val |-> r.val = <<255, 255, 255, 255>>]

flip_endian(f) == [f EXCEPT !.endian = IF f.endian = "BIG" THEN "LITTLE" ELSE "BIG"]

(***************************************************************************)
(* zlib (flate2's ZlibEncoder / ZlibDecoder, RFC 1950 and RFC 1951).       *)
(* The encoder writes the 2-byte zlib header, one final deflate block and  *)
(* the Adler-32 of the input.  At level 0 the block is stored; at any      *)
(* other level it is coded with the fixed Huffman codes over literals and  *)
(* distance-1 matches (runs of one byte), the matches starting no earlier  *)
(* than the third byte, which is what zlib emits for an input without any  *)
(* other repetition.  The decoder reads stored and fixed-Huffman blocks.   *)
(* A bit string is a sequence over {0, 1} in stream order.                 *)
(***************************************************************************)
RECURSIVE Pow2(_)
Pow2(k) == IF k = 0 THEN 1 ELSE 2 * Pow2(k - 1)

\* a Huffman code: n bits, most significant first
MsbBits(value, n) == [i \in 1..n |-> (value \div Pow2(n - i)) % 2]

\* a plain integer field: n bits, least significant first
LsbBits(value, n) == [i \in 1..n |-> (value \div Pow2(i - 1)) % 2]

RECURSIVE MsbValue(_)
MsbValue(bits) ==
    IF Len(bits) = 0 THEN 0
    ELSE 2 * MsbValue(SubSeq(bits, 1, Len(bits) - 1)) + bits[Len(bits)]

LsbValue(bits) == MsbValue(Reverse(bits))

\* bits packed into bytes from the least significant bit up, zero-filled
PackBits(bits) ==
    [k \in 1..((Len(bits) + 7) \div 8) |->
        LsbValue([j \in 1..8 |-> IF 8 * (k - 1) + j <= Len(bits)
                                 THEN bits[8 * (k - 1) + j] ELSE 0])]

RECURSIVE UnpackBits(_)
UnpackBits(bytes) ==
    IF Len(bytes) = 0 THEN <<>>
    ELSE LsbBits(bytes[1], 8) \o UnpackBits(Tail(bytes))

\* extra bits and base length of a length code 257..285
LengthExtra(code) == IF code <= 264 \/ code = 285 THEN 0 ELSE (code - 261) \div 4

LengthBase(code) ==
    IF code <= 264 THEN code - 254
    ELSE IF code = 285 THEN 258
    ELSE 3 + (4 + ((code - 261) % 4)) * Pow2(LengthExtra(code))

LengthCode(length) ==
    IF length = 258 THEN 285
    ELSE CHOOSE c \in 257..284 :
            LengthBase(c) <= length /\ length < LengthBase(c) + Pow2(LengthExtra(c))

\* extra bits and base distance of a distance code 0..29
DistExtra(code) == IF code < 2 THEN 0 ELSE (code \div 2) - 1

DistBase(code) == IF code < 2 THEN code + 1 ELSE 1 + (2 + (code % 2)) * Pow2(DistExtra(code))

\* the fixed Huffman code of a literal/length symbol 0..287
FixedCode(sym) ==
    IF sym <= 143 THEN MsbBits(48 + sym, 8)
    ELSE IF sym <= 255 THEN MsbBits(400 + (sym - 144), 9)
    ELSE IF sym <= 279 THEN MsbBits(sym - 256, 7)
    ELSE MsbBits(192 + (sym - 280), 8)

\* a match of the given length at distance 1
MatchBits(length) ==
    LET c == LengthCode(length)
    IN  FixedCode(c) \o LsbBits(length - LengthBase(c), LengthExtra(c)) \o MsbBits(0, 5)

\* the number of bytes from index i on that equal the byte before them
RECURSIVE RunAt(_, _)
RunAt(data, i) ==
    IF i > Len(data) \/ i < 2 THEN 0
    ELSE IF data[i] # data[i - 1] THEN 0
    ELSE 1 + RunAt(data, i + 1)

RECURSIVE DeflateTokens(_, _)
DeflateTokens(data, i) ==
    IF i > Len(data) THEN FixedCode(256)
    ELSE LET run == IF i >= 3 THEN RunAt(data, i) ELSE 0
             length == IF run > 258 THEN 258 ELSE run
         IN  IF length >= 3
             THEN MatchBits(length) \o DeflateTokens(data, i + length)
             ELSE FixedCode(data[i]) \o DeflateTokens(data, i + 1)

DeflateFixed(data) == PackBits(<<1, 1, 0>> \o DeflateTokens(data, 1))

DeflateStored(data) ==
    <<1, Len(data) % 256, Len(data) \div 256,
      255 - (Len(data) % 256), 255 - (Len(data) \div 256)>> \o data

RECURSIVE AdlerSums(_, _, _, _)
AdlerSums(data, i, s1, s2) ==
    IF i > Len(data) THEN <<s1, s2>>
    ELSE AdlerSums(data, i + 1, (s1 + data[i]) % 65521, (s2 + s1 + data[i]) % 65521)

Adler32(data) ==
    LET s == AdlerSums(data, 1, 1, 0)
    IN  <<s[2] \div 256, s[2] % 256, s[1] \div 256, s[1] % 256>>

\* the FLG byte zlib writes after CMF = 0x78 for a compression level
ZlibFlg(level) ==
    IF level <= 1 THEN 1 ELSE IF level <= 5 THEN 94 ELSE IF level = 6 THEN 156 ELSE 218

\* ZlibEncoder::new(Vec::new(), Compression::new(level)), write_all(data), finish()
ZlibEncode(data, level) ==
    <<120, ZlibFlg(level)>>
        \o (IF level = 0 THEN DeflateStored(data) ELSE DeflateFixed(data))
        \o Adler32(data)

\* one literal/length symbol at bit i: <<symbol, next bit>>, symbol -1 past the end
ReadSymbol(bits, i) ==
    IF i + 6 > Len(bits) THEN <<-1, i>>
    ELSE LET v7 == MsbValue(SubSeq(bits, i, i + 6))
         IN  IF v7 <= 23 THEN <<256 + v7, i + 7>>
             ELSE IF i + 7 > Len(bits) THEN <<-1, i>>
             ELSE LET v8 == 2 * v7 + bits[i + 7]
                  IN  IF v8 >= 48 /\ v8 <= 191 THEN <<v8 - 48, i + 8>>
                      ELSE IF v8 >= 192 /\ v8 <= 199 THEN <<280 + (v8 - 192), i + 8>>
                      ELSE IF i + 8 > Len(bits) THEN <<-1, i>>
                      ELSE <<144 + (2 * v8 + bits[i + 8] - 400), i + 9>>

\* copy length bytes from distance back, one at a time
RECURSIVE CopyMatch(_, _, _)
CopyMatch(out, dist, length) ==
    IF length = 0 THEN out
    ELSE CopyMatch(Append(out, out[Len(out) + 1 - dist]), dist, length - 1)

\* the rest of a fixed-Huffman block from bit i: [ok, out]
RECURSIVE InflateFixed(_, _, _)
InflateFixed(bits, i, out) ==
    LET r == ReadSymbol(bits, i)
        sym == r[1]
        j == r[2]
    IN  IF sym < 0 \/ sym > 285 THEN [ok |-> FALSE, out |-> out]
        ELSE IF sym = 256 THEN [ok |-> TRUE, out |-> out]
        ELSE IF sym < 256 THEN InflateFixed(bits, j, Append(out, sym))
        ELSE LET le == LengthExtra(sym)
                 k == j + le + 5
             IN  IF k - 1 > Len(bits) THEN [ok |-> FALSE, out |-> out]
                 ELSE LET length == LengthBase(sym) + LsbValue(SubSeq(bits, j, j + le - 1))
                          dc == MsbValue(SubSeq(bits, j + le, j + le + 4))
                          de == DistExtra(dc)
                      IN  IF dc > 29 \/ k + de - 1 > Len(bits)
                          THEN [ok |-> FALSE, out |-> out]
                          ELSE LET dist == DistBase(dc) + LsbValue(SubSeq(bits, k, k + de - 1))
                               IN  IF dist > Len(out) THEN [ok |-> FALSE, out |-> out]
                                   ELSE InflateFixed(bits, k + de, CopyMatch(out, dist, length))

\* a single final block, stored or fixed-Huffman: [ok, out]
Inflate(body) ==
    IF Len(body) = 0 THEN [ok |-> FALSE, out |-> <<>>]
    ELSE IF body[1] % 8 = 1 THEN
        \* BFINAL = 1, BTYPE = 00: LEN, NLEN, LEN bytes
        IF Len(body) < 5 THEN [ok |-> FALSE, out |-> <<>>]
        ELSE LET len == body[2] + 256 * body[3]
             IN  IF body[4] # 255 - body[2] \/ body[5] # 255 - body[3] \/ Len(body) < 5 + len
                 THEN [ok |-> FALSE, out |-> <<>>]
                 ELSE [ok |-> TRUE, out |-> SubSeq(body, 6, 5 + len)]
    ELSE IF body[1] % 8 = 3 THEN InflateFixed(UnpackBits(body), 4, <<>>)
    ELSE [ok |-> FALSE, out |-> <<>>]

\* ZlibDecoder::new(data).read_to_end(&mut out): [ok, out]
ZlibDecode(data) ==
    IF Len(data) < 6 \/ data[1] # 120 \/ (256 * data[1] + data[2]) % 31 # 0
    THEN [ok |-> FALSE, out |-> <<>>]
    ELSE LET r == Inflate(SubSeq(data, 3, Len(data) - 4))
         IN  IF r.ok /\ Adler32(r.out) = SubSeq(data, Len(data) - 3, Len(data))
             THEN r ELSE [ok |-> FALSE, out |-> <<>>]

(***************************************************************************)
(* EndianDependentString (packfile.rs): a tag of four bytes, written in    *)
(* reverse character order in a little-endian file.                        *)
(***************************************************************************)
\* text.chars().rev().collect() of a well-formed UTF-8 string
RECURSIVE chars_rev(_)
chars_rev(text) ==
    IF Len(text) = 0 THEN <<>>
    ELSE LET n == Utf8CharLen(text, 1)
         IN  chars_rev(SubSeq(text, n + 1, Len(text))) \o SubSeq(text, 1, n)

RECURSIVE trim_start_matches(_)
trim_start_matches(text) ==
    IF Len(text) > 0 /\ text[1] = 0 THEN trim_start_matches(Tail(text)) ELSE text

\* text.trim_matches(char::from(0)): NULs removed from both ends
trim_matches(text) == Reverse(trim_start_matches(Reverse(trim_start_matches(text))))

\* while string_to_write.len() < 4 { string_to_write.push(char::from(0)); }
RECURSIVE push_nul(_)
push_nul(text) == IF Len(text) < 4 THEN push_nul(Append(text, 0)) ELSE text

EndianDependentString_unpack(f) ==
    LET r == read(f, 4)
    IN  IF ~r.fm.ok THEN [fm |-> r.fm, val |-> <<>>]
        ELSE IF ~from_utf8_ok(r.val) THEN [fm |-> Panic(r.fm), val |-> <<>>]
        ELSE [fm |-> r.fm,
              val |-> trim_matches(IF f.endian = "LITTLE" THEN chars_rev(r.val) ELSE r.val)]

EndianDependentString_pack(text, endian_type) ==
    LET string_to_write == push_nul(text)
    IN  write(new(<<>>, endian_type, "OVERWRITE"),
              IF endian_type = "LITTLE" THEN chars_rev(string_to_write)
              ELSE string_to_write).data

(***************************************************************************)
(* VirtualFile (packfile.rs).                                              *)
(***************************************************************************)
VirtualFile(type_, compress, compression_level, path, data) ==
    [type_ |-> type_, compress |-> compress, compression_level |-> compression_level,
     path |-> path, data |-> data]

get_compressed_data(vf) ==
    IF vf.compress THEN ZlibEncode(vf.data, vf.compression_level) ELSE vf.data

\* while fm.size() % 32 != 0 { fm.write(&vec![0]); }
RECURSIVE pad_to_32(_)
pad_to_32(f) == IF f.ok /\ size(f) % 32 # 0 THEN pad_to_32(write(f, <<0>>)) ELSE f

get_assembled_data(vf) ==
    pad_to_32(write(new(<<>>, "LITTLE", "OVERWRITE"), get_compressed_data(vf))).data

get_real_data_size(vf) == Len(vf.data)

get_compressed_data_size(vf) == Len(get_compressed_data(vf))

get_aligned_data_size(vf) == Len(get_assembled_data(vf))

\* index of the last '/' of a path, 0 if it has none
RECURSIVE last_slash(_, _)
last_slash(path, i) ==
    IF i = 0 THEN 0 ELSE IF path[i] = 47 THEN i ELSE last_slash(path, i - 1)

\* <<directory, file_name>>: the pieces of path.split("/"), the last popped, the rest joined
get_split_path(vf) ==
    LET k == last_slash(vf.path, Len(vf.path))
    IN  <<SubSeq(vf.path, 1, k - 1), SubSeq(vf.path, k + 1, Len(vf.path))>>

(***************************************************************************)
(* Packfile (packfile.rs).  A HashMap is a function from its keys; a       *)
(* panic inside unpack or from_binary is a result with ok = FALSE that     *)
(* carries the panic message and no Packfile.                              *)
(***************************************************************************)
Packfile(magic, version, files) == [magic |-> magic, version |-> version, files |-> files]

KAP == <<32, 75, 65, 80>>

PAK == <<80, 65, 75, 32>>

contains_key(map, key) == key \in DOMAIN map

insert(map, key, value) ==
    [k \in (DOMAIN map) \cup {key} |-> IF k = key THEN value ELSE map[k]]

\* one dedup table for folders and filenames alike
RECURSIVE path_partition_shared(_, _, _)
path_partition_shared(files, i, st) ==
    IF i > Len(files) THEN st
    ELSE LET split_path == get_split_path(files[i])
             foldername == split_path[1]
             filename == split_path[2]
             s1 == IF contains_key(st.folder_pointers, foldername) THEN st
                   ELSE [fm |-> w_str_null(st.fm, foldername),
                         folder_pointers |-> insert(st.folder_pointers, foldername, size(st.fm)),
                         filename_pointers |-> insert(st.filename_pointers, foldername, size(st.fm))]
             s2 == IF contains_key(s1.filename_pointers, filename) THEN s1
                   ELSE [fm |-> w_str_null(s1.fm, filename),
                         folder_pointers |-> insert(s1.folder_pointers, filename, size(s1.fm)),
                         filename_pointers |-> insert(s1.filename_pointers, filename, size(s1.fm))]
         IN  path_partition_shared(files, i + 1, s2)

\* the first loop of pack: the path partition and the two pointer tables
RECURSIVE path_partition(_, _, _)
path_partition(files, i, st) ==
    IF i > Len(files) THEN st
    ELSE LET split_path == get_split_path(files[i])
             foldername == split_path[1]
             filename == split_path[2]
             s1 == IF contains_key(st.folder_pointers, foldername) THEN st
                   ELSE [st EXCEPT !.folder_pointers = insert(@, foldername, size(st.fm)),
                                   !.fm = w_str_null(@, foldername)]
             s2 == IF contains_key(s1.filename_pointers, filename) THEN s1
                   ELSE [s1 EXCEPT !.filename_pointers = insert(@, filename, size(s1.fm)),
                                   !.fm = w_str_null(@, filename)]
         IN  path_partition(files, i + 1, s2)

\* the second loop of pack: one 24-byte record per file
RECURSIVE write_records(_, _, _, _, _)
write_records(f, files, i, st, endian_type) ==
    IF i > Len(files) THEN f
    ELSE LET virtual_file == files[i]
             split_path == get_split_path(virtual_file)
             folder_pointer == st.folder_pointers[split_path[1]]
             file_pointer == st.filename_pointers[split_path[2]]
             f1 == w_u32(f, Dig(get_real_data_size(virtual_file), 4))
             f2 == w_u32(f1, Dig(get_compressed_data_size(virtual_file), 4))
             f3 == w_u32(f2, Dig(get_aligned_data_size(virtual_file), 4))
             f4 == w_u32(f3, Dig(folder_pointer, 4))
             f5 == write(f4, EndianDependentString_pack(virtual_file.type_, endian_type))
             f6 == w_u32(f5, Dig(file_pointer, 4))
         IN  write_records(f6, files, i + 1, st, endian_type)

\* the third loop of pack: the assembled data of every file
RECURSIVE write_files(_, _, _)
write_files(f, files, i) ==
    IF i > Len(files) THEN f
    ELSE write_files(write(f, get_assembled_data(files[i])), files, i + 1)

\* while data_pointer % 32 != 0 { data_pointer += 1; }
round_up_32(n) == ((n + 31) \div 32) * 32

Packfile_pack(pk, endian_type) ==
    LET header_size == 32
        f1 == write(new(<<>>, endian_type, "OVERWRITE"),
                    EndianDependentString_pack(pk.magic, endian_type))
        f2 == w_u32(f1, Dig(pk.version, 4))
        f3 == w_u32(f2, Dig(0, 4))
        f4 == w_u32(f3, Dig(header_size, 4))
        st == path_partition(pk.files, 1,
                             [fm |-> new(<<>>, "LITTLE", "OVERWRITE"),
                              folder_pointers |-> <<>>, filename_pointers |-> <<>>])
        data_pointer == round_up_32(header_size + size(st.fm) + Len(pk.files) * 24 + 4)
        f5 == w_u32(f4, Dig(data_pointer - header_size, 4))
        f6 == seek(f5, header_size)
        f7 == w_u32(f6, Dig(Len(pk.files), 4))
        f8 == write_records(f7, pk.files, 1, st, endian_type)
        f9 == write(f8, st.fm.data)
        f10 == pad_to_32(seek(f9, data_pointer))
    IN  write_files(f10, pk.files, 1).data

to_binary(pk, endian_type) == Packfile_pack(pk, endian_type)

\* Packfile::new(EndianDependentString::new("".to_string()), 0, vec![])
NoPackfile == Packfile(<<>>, 0, <<>>)

\* a panic with its message: no Packfile is returned
Failed(err) == [ok |-> FALSE, err |-> err, pak |-> NoPackfile]

\* the loop of unpack over the records: [ok, err, files]
RECURSIVE unpack_files(_, _, _, _, _)
unpack_files(f, n, string_pointer, current_data_position, files) ==
    IF n = 0 THEN [ok |-> TRUE, err |-> "", files |-> files]
    ELSE LET real_data_size == r_u32(f)
             compressed_data_size == r_u32(real_data_size.fm)
             aligned_data_size == r_u32(compressed_data_size.fm)
         IN  IF ~aligned_data_size.fm.ok THEN [ok |-> FALSE, err |-> "panic", files |-> files]
             ELSE IF Num(aligned_data_size.val) % 32 # 0
             THEN [ok |-> FALSE, err |-> "Invalid aligned data size", files |-> files]
             ELSE LET folder_pointer == r_u32(aligned_data_size.fm)
                      file_type == EndianDependentString_unpack(folder_pointer.fm)
                      file_pointer == r_u32(file_type.fm)
                  IN  IF ~file_pointer.fm.ok
                      THEN [ok |-> FALSE, err |-> "panic", files |-> files]
                      ELSE LET current_header_position == file_pointer.fm.pos
                               folder == r_str_null(seek(file_pointer.fm,
                                             Num(folder_pointer.val) + string_pointer))
                               file_name == r_str_null(seek(folder.fm,
                                                Num(file_pointer.val) + string_pointer))
                               path == IF folder.val = <<>> THEN file_name.val
                                       ELSE folder.val \o <<47>> \o file_name.val
                               data == read(seek(file_name.fm, current_data_position),
                                            Num(compressed_data_size.val))
                               compress == compressed_data_size.val # real_data_size.val
                               decoded == ZlibDecode(data.val)
                           IN  IF ~data.fm.ok \/ (compress /\ ~decoded.ok)
                               THEN [ok |-> FALSE, err |-> "panic", files |-> files]
                               ELSE unpack_files(seek(data.fm, current_header_position), n - 1,
                                        string_pointer,
                                        current_data_position + Num(aligned_data_size.val),
                                        Append(files,
                                            VirtualFile(file_type.val, compress, 6, path,
                                                IF compress THEN decoded.out ELSE data.val)))

\* the Packfile unpack returns once every check has passed: the magic read
\* is " KAP" and the version read is 2
unpack_result(r) ==
    IF ~r.ok THEN Failed(r.err)
    ELSE [ok |-> TRUE, err |-> "", pak |-> Packfile(KAP, 2, r.files)]

\* num_files has been read at header_size: string_pointer, the records
unpack_records(header_size, data_pointer, num_files) ==
    IF ~num_files.fm.ok THEN Failed("panic")
    ELSE unpack_result(unpack_files(seek(num_files.fm, Num(header_size.val) + 4),
                                    Num(num_files.val),
                                    Num(num_files.val) * 24 + Num(header_size.val) + 4,
                                    Num(data_pointer.val) + Num(header_size.val),
                                    <<>>))

\* data_pointer has been read: seek(header_size), num_files
unpack_num_files(header_size, data_pointer) ==
    IF ~data_pointer.fm.ok THEN Failed("panic")
    ELSE unpack_records(header_size, data_pointer,
                        r_u32(seek(data_pointer.fm, Num(header_size.val))))

\* header_size has been read: data_pointer
unpack_data_pointer(header_size) == unpack_num_files(header_size, r_u32(header_size.fm))

\* zero has been read and is checked: header_size
unpack_header_size(zero) ==
    IF ~zero.fm.ok THEN Failed("panic")
    ELSE IF zero.val # Dig(0, 4) THEN Failed("Invalid zero value")
    ELSE unpack_data_pointer(r_u32(zero.fm))

\* version has been read and is checked: zero
unpack_zero(version) ==
    IF ~version.fm.ok THEN Failed("panic")
    ELSE IF version.val # Dig(2, 4) THEN Failed("Invalid version number")
    ELSE unpack_header_size(r_u32(version.fm))

\* magic has been read and is checked: version
unpack_version(magic) ==
    IF ~magic.fm.ok THEN Failed("panic")
    ELSE IF magic.val # KAP THEN Failed("Invalid magic")
    ELSE unpack_zero(r_u32(magic.fm))

Packfile_unpack(f) == unpack_version(EndianDependentString_unpack(f))

\* "PAK " picks BIG and " KAP" picks LITTLE
from_binary_swapped(data) ==
    IF Len(data) < 4 THEN Failed("panic") @@ [endian |-> ""]
    ELSE IF SubSeq(data, 1, 4) \notin {PAK, KAP} THEN Failed("Invalid magic") @@ [endian |-> ""]
    ELSE Packfile_unpack(new(data, IF SubSeq(data, 1, 4) = PAK THEN "BIG" ELSE "LITTLE",
                             "OVERWRITE"))
             @@ [endian |-> IF SubSeq(data, 1, 4) = PAK THEN "BIG" ELSE "LITTLE"]

\* [ok, err, pak, endian]: endian is the one the cursor over data was given
from_binary(data) ==
    IF Len(data) < 4 THEN Failed("panic") @@ [endian |-> ""]
    ELSE IF SubSeq(data, 1, 4) \notin {PAK, KAP} THEN Failed("Invalid magic") @@ [endian |-> ""]
    ELSE Packfile_unpack(new(data, IF SubSeq(data, 1, 4) = PAK THEN "LITTLE" ELSE "BIG",
                             "OVERWRITE"))
             @@ [endian |-> IF SubSeq(data, 1, 4) = PAK THEN "LITTLE" ELSE "BIG"]

\* str::to_lowercase on ASCII letters
to_lowercase(text) == [i \in 1..Len(text) |-> IF text[i] >= 65 /\ text[i] <= 90
                                              THEN text[i] + 32 ELSE text[i]]

\* path.replace("\\", "/")
replace_backslash(path) == [i \in 1..Len(path) |-> IF path[i] = 92 THEN 47 ELSE path[i]]

\* index of the first file whose lowercased path is fixed_path, 0 if none
RECURSIVE find_path(_, _, _)
find_path(files, i, fixed_path) ==
    IF i > Len(files) THEN 0
    ELSE IF to_lowercase(files[i].path) = fixed_path THEN i
    ELSE find_path(files, i + 1, fixed_path)

\* [ok, val]: ok = FALSE is the panic "VirtualFile not found"
get_data_from_path(pk, path) ==
    LET i == find_path(pk.files, 1, to_lowercase(replace_backslash(path)))
    IN  IF i = 0 THEN [ok |-> FALSE, val |-> <<>>]
        ELSE [ok |-> TRUE, val |-> pk.files[i].data]

\* the path is lowercased but its backslashes are kept
set_data_from_path_keep_backslash(pk, path, data) ==
    LET i == find_path(pk.files, 1, to_lowercase(path))
    IN  IF i = 0 THEN [ok |-> FALSE, pak |-> pk]
        ELSE [ok |-> TRUE, pak |-> [pk EXCEPT !.files[i].data = data]]

\* [ok, pak]: ok = FALSE is the panic "VirtualFile not found"
set_data_from_path(pk, path, data) ==
    LET i == find_path(pk.files, 1, to_lowercase(replace_backslash(path)))
    IN  IF i = 0 THEN [ok |-> FALSE, pak |-> pk]
        ELSE [ok |-> TRUE, pak |-> [pk EXCEPT !.files[i].data = data]]

(***************************************************************************)
(* The free-running cursor: a FileManipulator is constructed over some     *)
(* buffer and any operation is applied to it, one after the other, until   *)
(* one of them panics.  last records the operation, its argument, the      *)
(* cursor before it and what it returned.                                  *)
(***************************************************************************)
Endians == {"BIG", "LITTLE"}
WriteModes == {"OVERWRITE", "INSERT"}

\* a buffer of n distinct non-zero bytes: 17, 18, ...
Filler(n) == [i \in 1..n |-> 16 + i]

\* the texts "", "a", "aa", ... handed to the string writers
Texts == {[i \in 1..n |-> 97] : n \in 0..MaxStr}

NoOp == [op |-> "new", arg |-> <<>>, pre |-> new(<<>>, "BIG", "OVERWRITE"), ret |-> <<>>]

Init ==
    /\ \E n \in 0..MaxLen, e \in Endians, m \in WriteModes : fm = new(Filler(n), e, m)
    /\ last = NoOp
    /\ nops = 0
    /\ pc = "free"
    /\ inp = <<>>
    /\ mark = 0
    /\ pak = NoPackfile
    /\ bin = <<>>

\* one call on the cursor: f2 is the cursor it leaves, ret what it returns
Step(op, arg, f2, ret) ==
    /\ pc = "free"
    /\ fm.ok
    /\ nops < MaxOps
    /\ Len(f2.data) <= MaxLen
    /\ fm' = f2
    /\ last' = [op |-> op, arg |-> arg, pre |-> fm, ret |-> IF f2.ok THEN ret ELSE <<>>]
    /\ nops' = nops + 1
    /\ UNCHANGED <<pc, inp, mark, pak, bin>>

Seek == \E p \in 0..MaxLen : Step("seek", <<p>>, seek(fm, p), <<>>)

MovePos == \E a \in {-4, -1, 1, 4} : Step("move_pos", <<a>>, move_pos(fm, a), <<>>)

Align == \E n \in {0, 1, 4} : Step("align", <<n>>, align(fm, n), <<>>)

Pad == \E n \in {0, 1, 4} : Step("pad", <<n>>, pad(fm, n), <<>>)

Read == \E n \in {0, 2} : Step("read", <<n>>, read(fm, n).fm, read(fm, n).val)

ReadByte == Step("read_byte", <<>>, read_byte(fm).fm, <<read_byte(fm).val>>)

Write == \E b \in Texts : Step("write", b, write(fm, b), <<>>)

WriteByte == \E b \in {0, 7} : Step("write_byte", <<b>>, write_byte(fm, b), <<>>)

W_u8 == Step("w_u8", <<18>>, w_u8(fm, 18), <<>>)

W_s8 == Step("w_s8", <<-2>>, w_s8(fm, -2), <<>>)

W_u16 == Step("w_u16", <<18, 52>>, w_u16(fm, <<18, 52>>), <<>>)

W_s16 == Step("w_s16", <<255, 254>>, w_s16(fm, <<255, 254>>), <<>>)

W_u32 == Step("w_u32", <<1, 2, 3, 4>>, w_u32(fm, <<1, 2, 3, 4>>), <<>>)

W_s32 == Step("w_s32", <<255, 255, 255, 254>>, w_s32(fm, <<255, 255, 255, 254>>), <<>>)

W_u64 == Step("w_u64", Dig(16909060, 8), w_u64(fm, Dig(16909060, 8)), <<>>)

W_s64 == Step("w_s64", [i \in 1..8 |-> IF i = 8 THEN 254 ELSE 255],
              w_s64(fm, [i \in 1..8 |-> IF i = 8 THEN 254 ELSE 255]), <<>>)

W_u16_jps ==
    \E mode \in 0..2 : Step("w_u16_jps", <<18, 52, mode>>, w_u16_jps(fm, <<18, 52>>, mode), <<>>)

W_s16_jps ==
    \E mode \in 0..2 : Step("w_s16_jps", <<255, 254, mode>>, w_s16_jps(fm, <<255, 254>>, mode), <<>>)

W_str == \E t \in Texts : Step("w_str", t, w_str(fm, t), <<>>)

W_str_null == \E t \in Texts : Step("w_str_null", t, w_str_null(fm, t), <<>>)

W_str_jps == \E t \in Texts : Step("w_str_jps", t, w_str_jps(fm, t), <<>>)

W_bool == \E v \in BOOLEAN : Step("w_bool", <<IF v THEN 1 ELSE 0>>, w_bool(fm, v), <<>>)

R_u8 == Step("r_u8", <<>>, r_u8(fm).fm, <<r_u8(fm).val>>)

R_s8 == Step("r_s8", <<>>, r_s8(fm).fm, <<r_s8(fm).val>>)

R_u16 == Step("r_u16", <<>>, r_u16(fm).fm, r_u16(fm).val)

R_s16 == Step("r_s16", <<>>, r_s16(fm).fm, r_s16(fm).val)

R_u32 == Step("r_u32", <<>>, r_u32(fm).fm, r_u32(fm).val)

R_s32 == Step("r_s32", <<>>, r_s32(fm).fm, r_s32(fm).val)

R_u64 == Step("r_u64", <<>>, r_u64(fm).fm, r_u64(fm).val)

R_s64 == Step("r_s64", <<>>, r_s64(fm).fm, r_s64(fm).val)

R_u16_jps == Step("r_u16_jps", <<>>, r_u16_jps(fm).fm, r_u16_jps(fm).val)

R_s16_jps == Step("r_s16_jps", <<>>, r_s16_jps(fm).fm, r_s16_jps(fm).val)

R_str == \E n \in {1, 2} : Step("r_str", <<n>>, r_str(fm, n).fm, r_str(fm, n).val)

R_str_null == Step("r_str_null", <<>>, r_str_null(fm).fm, r_str_null(fm).val)

R_str_jps == Step("r_str_jps", <<>>, r_str_jps(fm).fm, r_str_jps(fm).val)

R_bool == Step("r_bool", <<>>, r_bool(fm).fm, <<IF r_bool(fm).val THEN 1 ELSE 0>>)

FlipEndian == Step("flip_endian", <<>>, flip_endian(fm), <<>>)

Next ==
    \/ Seek \/ MovePos \/ Align \/ Pad \/ Read \/ ReadByte \/ Write \/ WriteByte
    \/ W_u8 \/ W_s8 \/ W_u16 \/ W_s16 \/ W_u32 \/ W_s32 \/ W_u64 \/ W_s64
    \/ W_u16_jps \/ W_s16_jps \/ W_str \/ W_str_null \/ W_str_jps \/ W_bool
    \/ R_u8 \/ R_s8 \/ R_u16 \/ R_s16 \/ R_u32 \/ R_s32 \/ R_u64 \/ R_s64
    \/ R_u16_jps \/ R_s16_jps \/ R_str \/ R_str_null \/ R_str_jps \/ R_bool
    \/ FlipEndian

Spec == Init /\ [][Next]_vars

(***************************************************************************)
(* Claims about the free-running cursor (specification Spec).              *)
(***************************************************************************)

\* C1: every operation that returns normally leaves 0 <= pos <= len(data);
\* an operation that would break this panics (ok = FALSE) instead of
\* returning.
C1_PositionInBuffer == fm.ok => (0 <= fm.pos /\ fm.pos <= Len(fm.data))

\* C1 witness: a seek past the end of the buffer has returned, and so has a
\* later operation that moved the cursor.
C1_Witness ==
    /\ fm.ok
    /\ nops = 2
    /\ last.op # "seek"
    /\ last.pre.pos > 4
    /\ fm.pos # last.pre.pos

\* the number of bytes the write primitive recorded in l encodes
EncodedLen(l) ==
    IF l.op = "write" THEN Len(l.arg)
    ELSE IF l.op = "w_str_null" THEN Len(l.arg) + 1
    ELSE IF l.op = "w_str_jps" THEN
        (IF Len(l.arg) = 0 THEN 4 ELSE 4 * ((Len(l.arg) + 1 + 2 + 3) \div 4))
    ELSE 4

OverwritePrimitives ==
    {"write", "w_u32", "w_bool", "w_str_null", "w_u16_jps", "w_s16_jps", "w_str_jps"}

\* C2: in OVERWRITE mode, a write primitive that encodes k bytes at position
\* p with p + k <= len(data) leaves len(data) and every byte outside
\* [p, p+k) unchanged and sets the position to p + k.
C2_OverwriteInPlace ==
    LET p == last.pre.pos
        k == EncodedLen(last)
    IN  (/\ last.op \in OverwritePrimitives
         /\ last.pre.write_mode = "OVERWRITE"
         /\ p + k <= Len(last.pre.data)
         /\ fm.ok)
        => /\ Len(fm.data) = Len(last.pre.data)
           /\ \A i \in 1..Len(last.pre.data) :
                (i <= p \/ i > p + k) => fm.data[i] = last.pre.data[i]
           /\ fm.pos = p + k

(***************************************************************************)
(* Scripted scenarios on one cursor.  A scenario is started with its       *)
(* inputs in inp, over a buffer of distinct non-zero bytes, and runs its   *)
(* calls in order; a call on a cursor that has panicked does nothing, so   *)
(* a panic anywhere shows as ok = FALSE at the end.                        *)
(***************************************************************************)

\* every byte sequence over {0, 161} of at most MaxStr bytes
Buffers == UNION {[1..n -> {0, 161}] : n \in 0..MaxStr}

\* every text over {"a", "b"} of at most MaxStr bytes
JpsTexts == UNION {[1..n -> {97, 98}] : n \in 0..MaxStr}

Call(op, arg, f2, ret, next) ==
    /\ fm' = f2
    /\ last' = [op |-> op, arg |-> arg, pre |-> fm, ret |-> IF f2.ok THEN ret ELSE <<>>]
    /\ nops' = nops + 1
    /\ pc' = next
    /\ UNCHANGED <<inp, pak, bin>>

\* write(b); move_pos(-len(b)); read(len(b)), from every start position
RoundTripInit ==
    /\ \E n \in 0..MaxLen, e \in Endians, m \in WriteModes : fm = new(Filler(n), e, m)
    /\ \E b \in Buffers, start \in 0..Len(fm.data) :
          inp = [b |-> b, start |-> start, data |-> fm.data]
    /\ last = NoOp
    /\ nops = 0
    /\ pc = "start"
    /\ mark = 0
    /\ pak = NoPackfile
    /\ bin = <<>>

RT_Seek ==
    /\ pc = "start"
    /\ Call("seek", <<inp.start>>, seek(fm, inp.start), <<>>, "positioned")
    /\ UNCHANGED mark

RT_Write ==
    /\ pc = "positioned"
    /\ Call("write", inp.b, write(fm, inp.b), <<>>, "written")
    /\ mark' = write(fm, inp.b).pos

RT_MoveBack ==
    /\ pc = "written"
    /\ Call("move_pos", <<-Len(inp.b)>>, move_pos(fm, -Len(inp.b)), <<>>, "moved")
    /\ UNCHANGED mark

RT_Read ==
    /\ pc = "moved"
    /\ Call("read", <<Len(inp.b)>>, read(fm, Len(inp.b)).fm, read(fm, Len(inp.b)).val, "done")
    /\ UNCHANGED mark

RoundTripNext == RT_Seek \/ RT_Write \/ RT_MoveBack \/ RT_Read

SpecRoundTrip == RoundTripInit /\ [][RoundTripNext]_vars

\* C3: write(b), move_pos(-len(b)), read(len(b)) returns exactly b and leaves
\* the cursor where write left it, for every b, endianness, write mode and
\* starting position in the buffer.
C3_WriteReadRoundTrip ==
    pc = "done" => (fm.ok /\ last.ret = inp.b /\ fm.pos = mark)

\* C3 witness: a non-empty b written in INSERT mode strictly inside the
\* buffer has been read back.
C3_Witness ==
    /\ pc = "done"
    /\ fm.ok
    /\ fm.write_mode = "INSERT"
    /\ Len(inp.b) = 2
    /\ inp.start > 0
    /\ Len(fm.data) > inp.start + 2

\* w_str_jps(text) from a start position, then either seek(start) and
\* r_str_jps(), or align(4)
JpsInit ==
    /\ \E n \in 0..MaxLen, e \in Endians, m \in WriteModes : fm = new(Filler(n), e, m)
    /\ \E t \in JpsTexts, start \in 0..Len(fm.data) :
          inp = [text |-> t, start |-> start, data |-> fm.data]
    /\ last = NoOp
    /\ nops = 0
    /\ pc = "start"
    /\ mark = 0
    /\ pak = NoPackfile
    /\ bin = <<>>

J_Seek ==
    /\ pc = "start"
    /\ Call("seek", <<inp.start>>, seek(fm, inp.start), <<>>, "positioned")
    /\ UNCHANGED mark

J_Write ==
    /\ pc = "positioned"
    /\ Call("w_str_jps", inp.text, w_str_jps(fm, inp.text), <<>>, "written")
    /\ mark' = w_str_jps(fm, inp.text).pos

J_SeekBack ==
    /\ pc = "written"
    /\ Call("seek", <<inp.start>>, seek(fm, inp.start), <<>>, "rewound")
    /\ UNCHANGED mark

J_Read ==
    /\ pc = "rewound"
    /\ Call("r_str_jps", <<>>, r_str_jps(fm).fm, r_str_jps(fm).val, "done")
    /\ UNCHANGED mark

J_Align ==
    /\ pc = "written"
    /\ Call("align", <<4>>, align(fm, 4), <<>>, "aligned")
    /\ UNCHANGED mark

JpsNext == J_Seek \/ J_Write \/ J_SeekBack \/ J_Read \/ J_Align

SpecJps == JpsInit /\ [][JpsNext]_vars

\* C4: w_str_jps(s), seek(start), r_str_jps() returns s and leaves the cursor
\* on a multiple of 4, for every text s and every start position.
C4_JpsRoundTrip ==
    pc = "done" => (fm.ok /\ last.ret = inp.text /\ fm.pos % 4 = 0)

\* the scenario was started on an empty cursor with the text "ab"
AbIntoEmpty == inp.text = <<97, 98>> /\ inp.data = <<>>

\* C5 as stated: "ab" into an empty cursor gives [04, 03, 61, 62, 00] with
\* the cursor at 5, and align(4) then moves the cursor to 8 writing nothing.
C5_AbLayoutAsStated ==
    /\ (AbIntoEmpty /\ pc = "written")
         => (fm.ok /\ fm.data = <<4, 3, 97, 98, 0>> /\ fm.pos = 5)
    /\ (AbIntoEmpty /\ pc = "aligned")
         => (fm.ok /\ fm.data = <<4, 3, 97, 98, 0>> /\ fm.pos = 8)

\* C5 amended: "ab" into an empty cursor gives [08, 03, 61, 62, 00, 00, 00,
\* 00] with the cursor at 8, and align(4) then leaves the cursor at 8 and
\* writes nothing.
C5_AbLayout ==
    (AbIntoEmpty /\ pc \in {"written", "aligned"})
        => (fm.ok /\ fm.data = <<8, 3, 97, 98, 0, 0, 0, 0>> /\ fm.pos = 8)

\* C5 witness: "ab" was written into an empty cursor and align(4) was called
C5_Witness == AbIntoEmpty /\ pc = "aligned" /\ last.op = "align" /\ last.pre.pos = 8

(***************************************************************************)
(* The Packfile round trip: a Packfile x is built, to_binary(e) packs it,  *)
(* and from_binary parses the bytes, either as packed or with their first  *)
(* four bytes replaced by another magic.                                   *)
(***************************************************************************)
\* most files of a Packfile
MaxFiles == 2
\* longest payload of a file
MaxRun == 11

Run(byte, n) == [i \in 1..n |-> byte]

\* "bn", "TEXT"
Types == {<<98, 110>>, <<84, 69, 88, 84>>}

Levels == {0, 6}

\* "a", "f/a"
Paths == {<<97>>, <<102, 47, 97>>}

Payloads == {<<>>, Run(97, MaxRun)}

\* a file that is not compressed carries the level unpack gives every file
VirtualFiles ==
    {VirtualFile(t, FALSE, 6, p, d) : t \in Types, p \in Paths, d \in Payloads}
        \cup {VirtualFile(t, TRUE, l, p, d) : t \in Types, l \in Levels,
                                             p \in Paths, d \in Payloads}

\* " KAP", "PAK " and DE AD BE EF
Magics == {KAP, PAK, <<222, 173, 190, 239>>}

PackfileInit ==
    /\ \E n \in 0..MaxFiles : \E files \in [1..n -> VirtualFiles] :
          pak = Packfile(KAP, 2, files)
    /\ inp = [x |-> pak, e |-> "", magic |-> <<>>]
    /\ bin = <<>>
    /\ pc = "new"
    /\ fm = new(<<>>, "BIG", "OVERWRITE")
    /\ last = NoOp
    /\ nops = 0
    /\ mark = 0

\* x.to_binary(e)
ToBinary ==
    /\ pc = "new"
    /\ \E e \in Endians :
          /\ bin' = to_binary(pak, e)
          /\ inp' = [inp EXCEPT !.e = e]
          /\ last' = [op |-> "to_binary", arg |-> <<e>>, pre |-> pak, ret |-> <<>>]
    /\ pc' = "packed"
    /\ nops' = nops + 1
    /\ UNCHANGED <<fm, mark, pak>>

\* from_binary(data) has returned r
Parsed(magic, data, r) ==
    /\ pak' = r.pak
    /\ inp' = [inp EXCEPT !.magic = magic]
    /\ last' = [op |-> "from_binary", arg |-> data, pre |-> pak,
                ret |-> [ok |-> r.ok, err |-> r.err, endian |-> r.endian]]

\* the packed bytes with their first four bytes replaced by magic
Behind(magic) == magic \o SubSeq(bin, 5, Len(bin))

\* Packfile::from_binary on the packed bytes behind one of the magics
FromBinary ==
    /\ pc = "packed"
    /\ \E magic \in Magics : Parsed(magic, Behind(magic), from_binary(Behind(magic)))
    /\ pc' = "parsed"
    /\ nops' = nops + 1
    /\ UNCHANGED <<fm, mark, bin>>

PackfileNext == ToBinary \/ FromBinary

SpecPackfile == PackfileInit /\ [][PackfileNext]_vars

\* from_binary was handed exactly the bytes to_binary returned
Untampered == pc = "parsed" /\ last.arg = bin

\* C6: from_binary(x.to_binary(e)) has the files of x, in the same order,
\* each with the same type tag, path and raw data, for e = BIG and e = LITTLE.
C6_PackfileRoundTrip ==
    Untampered =>
        /\ last.ret.ok
        /\ Len(pak.files) = Len(inp.x.files)
        /\ \A i \in 1..Len(inp.x.files) :
              /\ pak.files[i].type_ = inp.x.files[i].type_
              /\ pak.files[i].path = inp.x.files[i].path
              /\ pak.files[i].data = inp.x.files[i].data

\* C7: from_binary parses bytes that start with " KAP" as big-endian and
\* bytes that start with "PAK " as little-endian (so the rest is accepted
\* exactly when it was packed in that endian, and stops at the version field
\* otherwise), and fails with "Invalid magic", returning no Packfile, on any
\* other first four bytes.
C7_EndianAutodetect ==
    pc = "parsed" =>
        /\ inp.magic = KAP =>
              /\ last.ret.endian = "BIG"
              /\ last.ret.ok <=> inp.e = "BIG"
              /\ ~last.ret.ok => last.ret.err = "Invalid version number"
        /\ inp.magic = PAK =>
              /\ last.ret.endian = "LITTLE"
              /\ last.ret.ok <=> inp.e = "LITTLE"
              /\ ~last.ret.ok => last.ret.err = "Invalid version number"
        /\ inp.magic \notin {KAP, PAK} =>
              /\ ~last.ret.ok
              /\ last.ret.err = "Invalid magic"
              /\ pak = NoPackfile
        /\ last.ret.ok => Len(pak.files) = Len(inp.x.files) /\ pak.magic = KAP

C7_Witness ==
    /\ pc = "parsed"
    /\ inp.magic = <<222, 173, 190, 239>>
    /\ ~last.ret.ok
    /\ Len(inp.x.files) = MaxFiles

\* C9: every file packed with compress = true comes back with compress = true
\* and its raw data, every file packed with compress = false comes back with
\* compress = false and the same data, whatever the payload.
C9_CompressFlagRoundTrip ==
    Untampered =>
        /\ last.ret.ok
        /\ Len(pak.files) = Len(inp.x.files)
        /\ \A i \in 1..Len(inp.x.files) :
              /\ pak.files[i].compress = inp.x.files[i].compress
              /\ pak.files[i].data = inp.x.files[i].data

(***************************************************************************)
(* The string pool: Packfiles whose paths share folders and filenames are  *)
(* packed, and the pool is read off the bytes.                             *)
(***************************************************************************)
\* "f/a", "f/b", "f/f", "a", "g/a", "f"
PoolPaths ==
    {<<102, 47, 97>>, <<102, 47, 98>>, <<102, 47, 102>>, <<97>>, <<103, 47, 97>>, <<102>>}

PoolInit ==
    /\ \E n \in 0..MaxFiles : \E paths \in [1..n -> PoolPaths] :
          pak = Packfile(KAP, 2,
                    [i \in 1..n |-> VirtualFile(<<98, 110>>, FALSE, 6, paths[i], <<7>>)])
    /\ inp = [x |-> pak, e |-> "", magic |-> <<>>]
    /\ bin = <<>>
    /\ pc = "new"
    /\ fm = new(<<>>, "BIG", "OVERWRITE")
    /\ last = NoOp
    /\ nops = 0
    /\ mark = 0

PoolNext == ToBinary

SpecPool == PoolInit /\ [][PoolNext]_vars

\* the folder and the filename of the i-th file: its path cut at the last '/'
FolderOf(files, i) == get_split_path(files[i])[1]

FilenameOf(files, i) == get_split_path(files[i])[2]

\* the pool entries the first i files call for, in first-occurrence order
RECURSIVE ExpectedEntries(_, _)
ExpectedEntries(files, i) ==
    IF i = 0 THEN <<>>
    ELSE ExpectedEntries(files, i - 1)
            \o (IF \E j \in 1..(i - 1) : FolderOf(files, j) = FolderOf(files, i) THEN <<>>
                ELSE <<[role |-> "folder", text |-> FolderOf(files, i)]>>)
            \o (IF \E j \in 1..(i - 1) : FilenameOf(files, j) = FilenameOf(files, i) THEN <<>>
                ELSE <<[role |-> "filename", text |-> FilenameOf(files, i)]>>)

\* the entries as bytes, each NUL-terminated
RECURSIVE EntryBytes(_)
EntryBytes(entries) ==
    IF Len(entries) = 0 THEN <<>>
    ELSE entries[1].text \o <<0>> \o EntryBytes(Tail(entries))

\* where the entry of a role and text starts in the pool
EntryOffset(entries, role, text) ==
    LET k == CHOOSE k \in 1..Len(entries) : entries[k] = [role |-> role, text |-> text]
    IN  Len(EntryBytes(SubSeq(entries, 1, k - 1)))

\* the u32 at byte offset off of the packed bytes
U32At(off) ==
    Num(IF inp.e = "BIG" THEN SubSeq(bin, off + 1, off + 4)
        ELSE Reverse(SubSeq(bin, off + 1, off + 4)))

\* the pool of the packed bytes is exactly these entries, and the records point at them
PoolIs(files, entries, pool_start, data_start) ==
    /\ U32At(32) = Len(files)
    /\ pool_start + Len(EntryBytes(entries)) <= data_start
    /\ SubSeq(bin, pool_start + 1, pool_start + Len(EntryBytes(entries))) = EntryBytes(entries)
    /\ \A k \in (pool_start + Len(EntryBytes(entries)) + 1)..data_start : bin[k] = 0
    /\ \A i \in 1..Len(files) :
          /\ U32At(36 + 24 * (i - 1) + 12)
                = EntryOffset(entries, "folder", FolderOf(files, i))
          /\ U32At(36 + 24 * (i - 1) + 20)
                = EntryOffset(entries, "filename", FilenameOf(files, i))

\* C8: in the bytes pack produces, the pool holds one NUL-terminated entry per
\* distinct folder and per distinct filename, in first-occurrence order (for
\* each file its folder, then its filename), a string used in both roles has
\* two entries, and every record's folder and filename offsets point at the
\* start of its own entries.
C8_PoolDedup ==
    pc = "packed" =>
        PoolIs(inp.x.files, ExpectedEntries(inp.x.files, Len(inp.x.files)),
               36 + 24 * Len(inp.x.files), 32 + U32At(16))

\* "f/f" then "f/a": a folder shared by two files and used as a filename too
C8_Witness ==
    /\ pc = "packed"
    /\ Len(inp.x.files) = 2
    /\ inp.x.files[1].path = <<102, 47, 102>>
    /\ inp.x.files[2].path = <<102, 47, 97>>
    /\ SubSeq(bin, 85, 91) = <<102, 0, 102, 0, 97, 0, 0>>

(***************************************************************************)
(* Path lookup: set_data_from_path and get_data_from_path on a Packfile.   *)
(* A lookup that finds nothing panics and ends the run.                    *)
(***************************************************************************)
\* "f/a", "F/A", "f\a", "c"
FilePaths == {<<102, 47, 97>>, <<70, 47, 65>>, <<102, 92, 97>>, <<99>>}

\* "f/a", "F\A", "b"
QueryPaths == {<<102, 47, 97>>, <<70, 92, 65>>, <<98>>}

NewData == {<<1>>, <<2>>}

LookupInit ==
    /\ \E n \in 0..MaxFiles : \E paths \in [1..n -> FilePaths] :
          pak = Packfile(KAP, 2,
                    [i \in 1..n |-> VirtualFile(<<98, 110>>, FALSE, 6, paths[i], <<10 + i>>)])
    /\ inp = [path |-> <<>>, data |-> <<>>, set |-> FALSE]
    /\ bin = <<>>
    /\ pc = "lookup"
    /\ fm = new(<<>>, "BIG", "OVERWRITE")
    /\ last = NoOp
    /\ nops = 0
    /\ mark = 0

\* set_data_from_path(path, data) has ended with r
SetDone(path, data, r) ==
    /\ pak' = r.pak
    /\ last' = [op |-> "set_data_from_path", arg |-> [path |-> path, data |-> data],
                pre |-> pak, ret |-> [ok |-> r.ok, val |-> <<>>]]
    /\ inp' = IF r.ok THEN [path |-> path, data |-> data, set |-> TRUE] ELSE inp
    /\ pc' = IF r.ok THEN "lookup" ELSE "panicked"

SetData ==
    /\ pc = "lookup"
    /\ nops < MaxOps
    /\ \E path \in QueryPaths, data \in NewData :
          SetDone(path, data, set_data_from_path(pak, path, data))
    /\ nops' = nops + 1
    /\ UNCHANGED <<fm, mark, bin>>

\* get_data_from_path(path) has ended with r
GetDone(path, r) ==
    /\ last' = [op |-> "get_data_from_path", arg |-> [path |-> path, data |-> <<>>],
                pre |-> pak, ret |-> r]
    /\ pc' = IF r.ok THEN "lookup" ELSE "panicked"

GetData ==
    /\ pc = "lookup"
    /\ nops < MaxOps
    /\ \E path \in QueryPaths : GetDone(path, get_data_from_path(pak, path))
    /\ nops' = nops + 1
    /\ UNCHANGED <<fm, mark, bin, pak, inp>>

LookupNext == SetData \/ GetData

SpecLookup == LookupInit /\ [][LookupNext]_vars

\* a path with its backslashes replaced by '/' and its letters lowercased
Normalised(path) ==
    [i \in 1..Len(path) |-> IF path[i] = 92 THEN 47
                            ELSE IF path[i] >= 65 /\ path[i] <= 90 THEN path[i] + 32
                            ELSE path[i]]

\* a path with its letters lowercased
Lowercased(path) ==
    [i \in 1..Len(path) |-> IF path[i] >= 65 /\ path[i] <= 90 THEN path[i] + 32 ELSE path[i]]

\* some entry's lowercased path matches the path asked for
HasEntry(pk, path) == \E i \in 1..Len(pk.files) : Lowercased(pk.files[i].path) = Normalised(path)

\* C10: once set_data_from_path(p, d) has returned, get_data_from_path(q)
\* returns d for every q equal to p after backslashes are replaced by '/' and
\* letters lowercased; a lookup fails exactly when no entry's lowercased path
\* matches, and then the list of files is unchanged.
C10_PathLookup ==
    last.op \in {"set_data_from_path", "get_data_from_path"} =>
        /\ last.ret.ok <=> HasEntry(last.pre, last.arg.path)
        /\ ~last.ret.ok => pak = last.pre /\ pc = "panicked"
        /\ last.op = "get_data_from_path" => pak = last.pre
        /\ (last.op = "set_data_from_path" /\ last.ret.ok) =>
              \A q \in QueryPaths \cup FilePaths :
                  Normalised(q) = Normalised(last.arg.path) =>
                      get_data_from_path(pak, q) = [ok |-> TRUE, val |-> last.arg.data]
        /\ (last.op = "get_data_from_path" /\ inp.set
                /\ Normalised(last.arg.path) = Normalised(inp.path)) =>
              last.ret = [ok |-> TRUE, val |-> inp.data]

\* set_data_from_path("f/a", d) and then get_data_from_path("F\A") on two files
C10_Witness ==
    /\ last.op = "get_data_from_path"
    /\ inp.set
    /\ inp.path = <<102, 47, 97>>
    /\ last.arg.path = <<70, 92, 65>>
    /\ last.ret = [ok |-> TRUE, val |-> inp.data]
    /\ Len(pak.files) = 2

(***************************************************************************)
(* DCT (dct.rs).  A u32 field of the dialog table is four digits, most     *)
(* significant first; a text is its UTF-8 bytes.  usize and small u32      *)
(* offsets of the writer are plain numbers.  The arithmetic of the code is *)
(* on u32: a build with overflow checks panics where a build without them  *)
(* wraps, so each of pack and unpack takes the build as an argument.       *)
(***************************************************************************)
DialogEntry(hashed_key, text) == [hashed_key |-> hashed_key, text |-> text]

FooterEntry(number, text) == [number |-> number, text |-> text]

DCT(magic, version1, hash_seed, version2, dialog_entries, footer_entries) ==
    [magic |-> magic, version1 |-> version1, hash_seed |-> hash_seed,
     version2 |-> version2, dialog_entries |-> dialog_entries,
     footer_entries |-> footer_entries]

Builds == {"debug", "release"}

\* a + n on u32, a in digits and n a small number: the wrapped sum and
\* whether it overflowed
add_u32(a, n) ==
    LET lo == Num(SubSeq(a, 2, 4)) + n
        hi == a[1] + lo \div 16777216
    IN  [overflow |-> hi >= 256, val |-> <<hi % 256>> \o Dig(lo % 16777216, 3)]

\* (num_dialog_entries * 12) + (num_footer_entries * 8) - 1 on u32
end_offset(x) == Len(x.dialog_entries) * 12 + Len(x.footer_entries) * 8 - 1

\* the u32 digits of end_offset, wrapped
end_offset_u32(x) ==
    IF end_offset(x) < 0 THEN <<255, 255, 255, 255>> ELSE Dig(end_offset(x), 4)

\* the header of DCT::pack, up to the footer switch
pack_header(x) ==
    w_u32(w_u32(w_u32(w_u32(w_u32(w_u32(w_u32(w_str(
        new(<<>>, "LITTLE", "OVERWRITE"), x.magic),
        x.version1), x.hash_seed), x.version2),
        Dig(Len(x.dialog_entries), 4)),
        Dig(1, 4)),
        end_offset_u32(x)),
        IF Len(x.footer_entries) > 0 THEN Dig(1, 4) ELSE Dig(0, 4))

\* fm.w_u32(current_line_offset - fm.tell() as u32 - 1)
write_rel_offset(f, current_line_offset) ==
    IF current_line_offset - f.pos - 1 < 0 THEN Panic(f)
    ELSE w_u32(f, Dig(current_line_offset - f.pos - 1, 4))

\* current_line_offset = fm.tell() as u32; fm.seek(current_data_offset)
line_written(f, current_data_offset) ==
    [fm |-> seek(f, current_data_offset), line |-> f.pos]

\* mutant of write_line: the line offset is not moved behind the text
write_line_in_place(f, current_line_offset, text) ==
    [fm |-> seek(w_str_null(seek(f, current_line_offset), text), f.pos),
     line |-> current_line_offset]

\* current_data_offset = fm.tell(); fm.seek(current_line_offset);
\* fm.w_str_null(text); and back
write_line(f, current_line_offset, text) ==
    line_written(w_str_null(seek(f, current_line_offset), text), f.pos)

RECURSIVE pack_dialog_entries(_, _, _, _, _)
next_dialog_entry(r, entries, i) ==
    pack_dialog_entries(r.fm, entries, i + 1, r.fm.pos, r.line)

\* for dialog_entry in &self.dialog_entries
pack_dialog_entries(f, entries, i, current_data_offset, current_line_offset) ==
    IF i > Len(entries) THEN [fm |-> f, line |-> current_line_offset]
    ELSE IF entries[i].hashed_key = Dig(0, 4)
    THEN next_dialog_entry(
             [fm |-> w_u32(w_u32(w_u32(seek(f, current_data_offset),
                        Dig(0, 4)), Dig(0, 4)), Dig(0, 4)),
              line |-> current_line_offset], entries, i)
    ELSE next_dialog_entry(
             write_line(
                 w_u32(write_rel_offset(
                           w_u32(seek(f, current_data_offset), entries[i].hashed_key),
                           current_line_offset),
                       Dig(0, 4)),
                 current_line_offset, entries[i].text),
             entries, i)

RECURSIVE pack_footer_entries(_, _, _)
next_footer_entry(r, entries, i) == pack_footer_entries(r, entries, i + 1)

\* for footer_entry in &self.footer_entries
pack_footer_entries(r, entries, i) ==
    IF i > Len(entries) THEN r.fm
    ELSE next_footer_entry(
             write_line(w_u32(write_rel_offset(r.fm, r.line), entries[i].number),
                        r.line, entries[i].text),
             entries, i)

\* mutant of pack_terminator: the terminator is written behind the last text
pack_terminator_at_end(f) ==
    w_u32(w_u32(w_u32(write(seek(f, Len(f.data)), <<223, 255, 255, 255>>),
                      Dig(11, 4)), Dig(12, 4)), Dig(0, 4))

\* fm.write(&[0xDF, 0xFF, 0xFF, 0xFF]); fm.w_u32(11); fm.w_u32(12); fm.w_u32(0)
pack_terminator(f) ==
    w_u32(w_u32(w_u32(write(f, <<223, 255, 255, 255>>), Dig(11, 4)), Dig(12, 4)),
          Dig(0, 4))

\* the footer part of DCT::pack, behind the dialog table
pack_footer(r, x) ==
    IF Len(x.footer_entries) > 0
    THEN pack_terminator(pack_footer_entries(r, x.footer_entries, 1))
    ELSE r.fm

\* mutant of pack_body: the text region starts 50 bytes behind the records
pack_body_from_region_end(f, x) ==
    pack_footer(pack_dialog_entries(f, x.dialog_entries, 1, f.pos,
                                    end_offset(x) + 83), x)

\* the cursor at the end of pack, given the one behind the header
pack_body(f, x) ==
    pack_footer(pack_dialog_entries(f, x.dialog_entries, 1, f.pos,
                                    end_offset(x) + 50), x)

\* fm.get_data().to_vec(), or the panic
pack_data(f) == [ok |-> f.ok, data |-> IF f.ok THEN f.data ELSE <<>>]

\* DCT::pack: end_offset underflows when both lists are empty
DCT_pack(x, build) ==
    IF end_offset(x) < 0 /\ build = "debug" THEN [ok |-> FALSE, data |-> <<>>]
    ELSE pack_data(pack_body(pack_header(x), x))

DCT_to_binary(x, build) == DCT_pack(x, build)

\* u32 as usize
as_usize(d) == Num(d)

\* what DCT::unpack has read so far: the fields, the offsets it sought for
\* dialog texts, and whether it is still running
Unpacking(f, dct, sought, ok) == [fm |-> f, dct |-> dct, sought |-> sought, ok |-> ok]

\* fm.tell() as u32 + fm.r_u32() + plus, tell taken before the read
offset_from(tell, r, plus, build) ==
    [fm |-> r.fm,
     ok |-> r.fm.ok /\ ~(build = "debug" /\ add_u32(r.val, tell + plus).overflow),
     val |-> IF r.fm.ok THEN add_u32(r.val, tell + plus).val ELSE Dig(0, 4)]

\* let line_offset = fm.tell() as u32 + fm.r_u32() + 1
line_offset(tell, r, build) == offset_from(tell, r, 1, build)

\* let footer_offset = fm.tell() as u32 + fm.r_u32() + 9
footer_offset(tell, r, build) == offset_from(tell, r, 9, build)

\* fm.seek(line_offset as usize); fm.r_str_null(); fm.seek(current_data_offset)
read_line(f, offset) ==
    LET r == r_str_null(seek(f, as_usize(offset)))
    IN  [fm |-> seek(r.fm, f.pos), val |-> r.val]

\* the text of a dialog record is pushed under hashed_key
push_dialog(u, hashed_key, offset, line) ==
    Unpacking(line.fm,
              [u.dct EXCEPT !.dialog_entries = Append(@, DialogEntry(hashed_key, line.val))],
              Append(u.sought, [index |-> Len(u.dct.dialog_entries) + 1,
                                offset |-> as_usize(offset)]),
              line.fm.ok)

\* let line_zero = fm.r_u32(); then the text is read at the line offset
dialog_line(u, hashed_key, off, line_zero) ==
    IF ~off.ok \/ ~line_zero.fm.ok THEN [u EXCEPT !.ok = FALSE]
    ELSE push_dialog(u, hashed_key, off.val, read_line(line_zero.fm, off.val))

dialog_offset(u, hashed_key, off) == dialog_line(u, hashed_key, off, r_u32(off.fm))

\* one turn of the dialog loop, the hashed key read
dialog_record(u, key, build) ==
    IF ~key.fm.ok THEN [u EXCEPT !.ok = FALSE, !.fm = key.fm]
    ELSE IF key.val = Dig(0, 4)
    THEN Unpacking(move_pos(key.fm, 8),
                   [u.dct EXCEPT !.dialog_entries = Append(@, DialogEntry(Dig(0, 4), <<>>))],
                   u.sought, move_pos(key.fm, 8).ok)
    ELSE dialog_offset(u, key.val, line_offset(key.fm.pos, r_u32(key.fm), build))

RECURSIVE unpack_dialog_entries(_, _, _)
\* for _ in 0..num_dialog_entries
unpack_dialog_entries(u, n, build) ==
    IF n = 0 \/ ~u.ok THEN u
    ELSE unpack_dialog_entries(dialog_record(u, r_u32(u.fm), build), n - 1, build)

\* the text of a footer record is pushed under its number
push_footer(u, number, line) ==
    Unpacking(line.fm,
              [u.dct EXCEPT !.footer_entries = Append(@, FooterEntry(number, line.val))],
              u.sought, line.fm.ok)

\* let footer_line_id = fm.r_u32(); then the text is read at the line offset
footer_line(u, off, id) ==
    IF ~off.ok \/ ~id.fm.ok THEN [u EXCEPT !.ok = FALSE]
    ELSE push_footer(u, id.val, read_line(id.fm, off.val))

footer_record(u, off) == footer_line(u, off, r_u32(off.fm))

RECURSIVE unpack_footer_entries(_, _, _)
\* while fm.tell() < footer_offset as usize
unpack_footer_entries(u, footer_end, build) ==
    IF ~u.ok \/ ~(u.fm.pos < as_usize(footer_end)) THEN u
    ELSE unpack_footer_entries(
             footer_record(u, line_offset(u.fm.pos, r_u32(u.fm), build)),
             footer_end, build)

\* the dialog loop, then the footer loop if the switch is 1
unpack_tables(u, num, footer_end, footer_switch, build) ==
    IF ~footer_switch.fm.ok \/ ~footer_end.ok THEN [u EXCEPT !.ok = FALSE]
    ELSE IF footer_switch.val = Dig(1, 4)
    THEN unpack_footer_entries(
             unpack_dialog_entries([u EXCEPT !.fm = footer_switch.fm], as_usize(num), build),
             footer_end.val, build)
    ELSE unpack_dialog_entries([u EXCEPT !.fm = footer_switch.fm], as_usize(num), build)

\* let footer_switch = fm.r_u32()
unpack_footer_offset(u, num, off, build) ==
    unpack_tables(u, num, off, r_u32(off.fm), build)

\* let num_dialog_entries = fm.r_u32(); fm.move_pos(4)
unpack_num_dialog(dct, num, build) ==
    unpack_footer_offset(
        Unpacking(num.fm, dct, <<>>, num.fm.ok), num.val,
        footer_offset(num.fm.pos + 4, r_u32(move_pos(num.fm, 4)), build),
        build)

unpack_version2(magic, version1, hash_seed, version2, build) ==
    unpack_num_dialog(DCT(magic, version1, hash_seed, version2.val, <<>>, <<>>),
                      r_u32(version2.fm), build)

unpack_hash_seed(magic, version1, hash_seed, build) ==
    unpack_version2(magic, version1, hash_seed.val, r_u32(hash_seed.fm), build)

unpack_version1(magic, version1, build) ==
    unpack_hash_seed(magic, version1.val, r_u32(version1.fm), build)

unpack_magic(magic, build) == unpack_version1(magic.val, r_u32(magic.fm), build)

\* DCT::unpack
DCT_unpack(f, build) == unpack_magic(r_str(f, 4), build)

\* DCT::from_binary: the parsed DCT, or the panic
DCT_from_binary(data, build) == DCT_unpack(new(data, "LITTLE", "OVERWRITE"), build)

(***************************************************************************)
(* DCT round trip: x.to_binary() and DCT::from_binary of the bytes, under  *)
(* either build.  inp holds the DCT x and the build, pak the DCT in hand.  *)
(***************************************************************************)
MaxDialog == 2

MaxFooter == 2

DctHeaders ==
    {DCT(<<100, 99, 116, 32>>, Dig(1, 4), Dig(0, 4), Dig(1, 4), <<>>, <<>>),
     DCT(<<195, 169, 99, 116>>, <<255, 255, 255, 255>>, <<222, 173, 190, 239>>,
         <<0, 0, 1, 0>>, <<>>, <<>>)}

\* placeholders, two texts under one key, an empty text under a nonzero key
DialogEntries ==
    {DialogEntry(Dig(0, 4), <<>>),
     DialogEntry(<<222, 173, 190, 239>>, <<104, 105>>),
     DialogEntry(Dig(1, 4), <<>>),
     DialogEntry(Dig(1, 4), <<195, 169>>)}

FooterEntries ==
    {FooterEntry(Dig(0, 4), <<102>>), FooterEntry(<<255, 0, 0, 7>>, <<>>)}

DctInit ==
    /\ \E h \in DctHeaders : \E nd \in 0..MaxDialog : \E nf \in 0..MaxFooter :
       \E d \in [1..nd -> DialogEntries] : \E ft \in [1..nf -> FooterEntries] :
          pak = [h EXCEPT !.dialog_entries = d, !.footer_entries = ft]
    /\ \E build \in Builds : inp = [x |-> pak, build |-> build]
    /\ bin = <<>>
    /\ pc = "new"
    /\ fm = new(<<>>, "LITTLE", "OVERWRITE")
    /\ last = NoOp
    /\ nops = 0
    /\ mark = 0

\* x.to_binary() has returned r, or panicked
DctPacked(r) ==
    /\ bin' = r.data
    /\ last' = [op |-> "DCT::to_binary", arg |-> <<>>, pre |-> pak, ret |-> [ok |-> r.ok]]
    /\ pc' = IF r.ok THEN "packed" ELSE "panicked"

DctToBinary ==
    /\ pc = "new"
    /\ DctPacked(DCT_to_binary(pak, inp.build))
    /\ nops' = nops + 1
    /\ UNCHANGED <<fm, mark, pak, inp>>

\* DCT::from_binary(bin) has returned u.dct, or panicked
DctParsed(u) ==
    /\ pak' = u.dct
    /\ last' = [op |-> "DCT::from_binary", arg |-> bin, pre |-> pak,
                ret |-> [ok |-> u.ok, sought |-> u.sought]]
    /\ pc' = IF u.ok THEN "parsed" ELSE "panicked"

DctFromBinary ==
    /\ pc = "packed"
    /\ DctParsed(DCT_from_binary(bin, inp.build))
    /\ nops' = nops + 1
    /\ UNCHANGED <<fm, mark, bin, inp>>

DctNext == DctToBinary \/ DctFromBinary

SpecDct == DctInit /\ [][DctNext]_vars

\* the 12-byte record of dialog entry i in the packed bytes
DialogRecord(i) == SubSeq(bin, 32 + 12 * (i - 1) + 1, 32 + 12 * i)

\* C11: for every DCT x with a 4-byte magic, NUL-free texts and an empty
\* text on every hashed_key 0 entry, with any number of dialog and footer
\* entries (none included), x.to_binary() returns bytes in which each
\* hashed_key 0 entry is three zero u32s, and DCT::from_binary of them
\* returns the magic, version1, hash_seed, version2 and the dialog and footer
\* lists of x, having sought no offset for a hashed_key 0 entry.
C11_DctRoundTrip ==
    /\ last.op = "DCT::to_binary" =>
          /\ last.ret.ok
          /\ \A i \in 1..Len(inp.x.dialog_entries) :
                inp.x.dialog_entries[i].hashed_key = Dig(0, 4) =>
                    DialogRecord(i) = Zeros(12)
    /\ last.op = "DCT::from_binary" =>
          /\ last.ret.ok
          /\ pak = inp.x
          /\ \A k \in 1..Len(last.ret.sought) :
                inp.x.dialog_entries[last.ret.sought[k].index].hashed_key # Dig(0, 4)

(***************************************************************************)
(* DCT::merge_in_dict.  A key of the patch is present with a value or      *)
(* absent; a JSON number is a u64 of eight digits, and `as u32` keeps its  *)
(* low four.                                                               *)
(***************************************************************************)
Absent == [present |-> FALSE, val |-> <<>>]

Present(val) == [present |-> TRUE, val |-> val]

\* a u32 as the JSON number of to_dict
Number(d) == Zeros(8 - Len(d)) \o d

\* dict[..].as_u64().unwrap() as u32
as_u32(number) == SubSeq(number, Len(number) - 3, Len(number))

\* the first index from i on whose entry has the key, or 0
RECURSIVE position(_, _, _)
position(entries, hashed_key, i) ==
    IF i > Len(entries) THEN 0
    ELSE IF entries[i].hashed_key = hashed_key THEN i
    ELSE position(entries, hashed_key, i + 1)

\* mutant of set_line_from_hash: the line is pushed whether the key exists or not
set_line_from_hash_push(dct, hashed_key, text) ==
    IF hashed_key = Dig(0, 4) THEN dct
    ELSE [dct EXCEPT !.dialog_entries = Append(@, DialogEntry(hashed_key, text))]

set_line_from_hash(dct, hashed_key, text) ==
    IF hashed_key = Dig(0, 4) THEN dct
    ELSE IF position(dct.dialog_entries, hashed_key, 1) # 0
    THEN [dct EXCEPT !.dialog_entries[position(dct.dialog_entries, hashed_key, 1)].text = text]
    ELSE [dct EXCEPT !.dialog_entries = Append(@, DialogEntry(hashed_key, text))]

RECURSIVE merge_dialog_entries(_, _, _)
\* for dialog_entry in dict["dialog_entries"].as_array().unwrap()
merge_dialog_entries(dct, entries, i) ==
    IF i > Len(entries) THEN dct
    ELSE merge_dialog_entries(
             set_line_from_hash(dct, as_u32(entries[i].hashed_key), entries[i].text),
             entries, i + 1)

RECURSIVE merge_footer_entries(_, _, _)
\* for footer_entry in dict["footer_entries"].as_array().unwrap()
merge_footer_entries(dct, entries, i) ==
    IF i > Len(entries) THEN dct
    ELSE merge_footer_entries(
             [dct EXCEPT !.footer_entries =
                  Append(@, FooterEntry(as_u32(entries[i].number), entries[i].text))],
             entries, i + 1)

\* the four scalar keys of the patch
merge_header(dct, dict) ==
    [dct EXCEPT
        !.magic = IF dict.magic.present THEN dict.magic.val ELSE @,
        !.version1 = IF dict.version1.present THEN as_u32(dict.version1.val) ELSE @,
        !.hash_seed = IF dict.hash_seed.present THEN as_u32(dict.hash_seed.val) ELSE @,
        !.version2 = IF dict.version2.present THEN as_u32(dict.version2.val) ELSE @]

merge_dialog(dct, dict) ==
    IF dict.dialog_entries.present
    THEN merge_dialog_entries(dct, dict.dialog_entries.val, 1)
    ELSE dct

merge_footer(dct, dict) ==
    IF dict.footer_entries.present
    THEN merge_footer_entries(dct, dict.footer_entries.val, 1)
    ELSE dct

DCT_merge_in_dict(dct, dict) == merge_footer(merge_dialog(merge_header(dct, dict), dict), dict)

(***************************************************************************)
(* Merging a patch into a DCT, and the same patch once more.               *)
(***************************************************************************)
MaxPatch == 2

\* a placeholder, one key twice, another key
MergeDialogEntries ==
    {DialogEntry(Dig(0, 4), <<>>), DialogEntry(Dig(1, 4), <<97>>),
     DialogEntry(<<222, 173, 190, 239>>, <<104, 105>>)}

\* key 0 with a text, an existing key, a new key under two texts
PatchDialogEntries ==
    {DialogEntry(Number(Dig(0, 4)), <<122, 122>>), DialogEntry(Number(Dig(1, 4)), <<120>>),
     DialogEntry(Number(Dig(9, 4)), <<110>>), DialogEntry(Number(Dig(9, 4)), <<109>>)}

PatchFooterEntry == FooterEntry(Number(Dig(3, 4)), <<112>>)

\* no scalar key, magic and version1, hash_seed and version2
PatchHeaders ==
    {[magic |-> Absent, version1 |-> Absent, hash_seed |-> Absent, version2 |-> Absent],
     [magic |-> Present(<<68, 73, 67, 84>>), version1 |-> Present(Number(Dig(2, 4))),
      hash_seed |-> Absent, version2 |-> Absent],
     [magic |-> Absent, version1 |-> Absent,
      hash_seed |-> Present(Number(<<0, 0, 1, 2>>)), version2 |-> Present(Number(Dig(5, 4)))]}

PatchLists(entries, max) ==
    {Absent} \cup {Present(l) : l \in UNION {[1..n -> entries] : n \in 0..max}}

Patches ==
    {h @@ [dialog_entries |-> d, footer_entries |-> ft] :
        h \in PatchHeaders, d \in PatchLists(PatchDialogEntries, MaxPatch),
        ft \in PatchLists({PatchFooterEntry}, MaxFooter)}

MergeInit ==
    /\ \E nd \in 0..MaxDialog : \E d \in [1..nd -> MergeDialogEntries] :
       \E ft \in {<<>>, <<FooterEntry(Dig(0, 4), <<102>>)>>} :
          pak = DCT(<<100, 99, 116, 32>>, Dig(1, 4), Dig(0, 4), Dig(1, 4), d, ft)
    /\ \E patch \in Patches : inp = [x |-> pak, patch |-> patch]
    /\ bin = <<>>
    /\ pc = "new"
    /\ fm = new(<<>>, "LITTLE", "OVERWRITE")
    /\ last = NoOp
    /\ nops = 0
    /\ mark = 0

\* x.merge_in_dict(patch), and once more on the result
MergeInDict ==
    /\ pc \in {"new", "merged"}
    /\ pak' = DCT_merge_in_dict(pak, inp.patch)
    /\ last' = [op |-> "DCT::merge_in_dict", arg |-> inp.patch, pre |-> pak, ret |-> <<>>]
    /\ pc' = IF pc = "new" THEN "merged" ELSE "merged again"
    /\ nops' = nops + 1
    /\ UNCHANGED <<fm, mark, bin, inp>>

MergeNext == MergeInDict

SpecDctMerge == MergeInit /\ [][MergeNext]_vars

\* the dialog entries of the patch, keys as u32, or none when the key is absent
PatchDialog == IF inp.patch.dialog_entries.present THEN inp.patch.dialog_entries.val ELSE <<>>

PatchFooter ==
    IF inp.patch.footer_entries.present
    THEN [i \in 1..Len(inp.patch.footer_entries.val) |->
             FooterEntry(as_u32(inp.patch.footer_entries.val[i].number),
                         inp.patch.footer_entries.val[i].text)]
    ELSE <<>>

\* the nonzero keys of the patch
PatchKeys == {as_u32(PatchDialog[i].hashed_key) : i \in 1..Len(PatchDialog)} \ {Dig(0, 4)}

\* the text the patch gives last for a key
PatchText(key) ==
    PatchDialog[CHOOSE i \in 1..Len(PatchDialog) :
                   /\ as_u32(PatchDialog[i].hashed_key) = key
                   /\ \A j \in (i + 1)..Len(PatchDialog) : as_u32(PatchDialog[j].hashed_key) # key].text

\* entry i of the list is the first one with its key
IsFirst(entries, i) == \A j \in 1..(i - 1) : entries[j].hashed_key # entries[i].hashed_key

KeysOf(entries) == {entries[i].hashed_key : i \in 1..Len(entries)}

\* the place in the patch where a key appears first
FirstInPatch(key) ==
    CHOOSE i \in 1..Len(PatchDialog) :
        /\ as_u32(PatchDialog[i].hashed_key) = key
        /\ \A j \in 1..(i - 1) : as_u32(PatchDialog[j].hashed_key) # key

\* the dialog list is the one before with the patch merged into it
DialogMerged(before, after) ==
    LET added == PatchKeys \ KeysOf(before)
    IN  /\ Len(after) = Len(before) + Cardinality(added)
        /\ \A i \in 1..Len(before) :
              /\ after[i].hashed_key = before[i].hashed_key
              /\ after[i].text =
                    IF before[i].hashed_key \in PatchKeys /\ IsFirst(before, i)
                    THEN PatchText(before[i].hashed_key) ELSE before[i].text
        /\ \A i \in (Len(before) + 1)..Len(after) :
              /\ after[i].hashed_key \in added
              /\ after[i].text = PatchText(after[i].hashed_key)
              /\ \A j \in (Len(before) + 1)..(i - 1) :
                    FirstInPatch(after[j].hashed_key) < FirstInPatch(after[i].hashed_key)

\* C12: merge_in_dict(patch) leaves an entry alone for a patch key 0,
\* replaces the text of the first entry with the key for a nonzero key that
\* exists (number and order of entries unchanged), appends an entry for a new
\* nonzero key, in patch order; appends every patch footer entry in patch
\* order; merged once more, the dialog list stays as after one merge and the
\* added footers double; magic, version1, hash_seed and version2 change
\* only when present in the patch.
C12_DctMerge ==
    pc \in {"merged", "merged again"} =>
        /\ DialogMerged(inp.x.dialog_entries, pak.dialog_entries)
        /\ pak.footer_entries =
              inp.x.footer_entries \o PatchFooter
                  \o (IF pc = "merged again" THEN PatchFooter ELSE <<>>)
        /\ pc = "merged again" => pak.dialog_entries = last.pre.dialog_entries
        /\ pak.magic = IF inp.patch.magic.present THEN inp.patch.magic.val ELSE inp.x.magic
        /\ pak.version1 = IF inp.patch.version1.present
                          THEN as_u32(inp.patch.version1.val) ELSE inp.x.version1
        /\ pak.hash_seed = IF inp.patch.hash_seed.present
                           THEN as_u32(inp.patch.hash_seed.val) ELSE inp.x.hash_seed
        /\ pak.version2 = IF inp.patch.version2.present
                          THEN as_u32(inp.patch.version2.val) ELSE inp.x.version2

\* a patch <<key 0, key 1, key 9>> merged twice into <<key 1, key 1>>
C12_Witness ==
    /\ pc = "merged again"
    /\ Len(inp.x.dialog_entries) = 2
    /\ inp.x.dialog_entries[1].hashed_key = Dig(1, 4)
    /\ inp.x.dialog_entries[2].hashed_key = Dig(1, 4)
    /\ Len(PatchDialog) = 2
    /\ as_u32(PatchDialog[1].hashed_key) = Dig(1, 4)
    /\ as_u32(PatchDialog[2].hashed_key) = Dig(9, 4)
    /\ Len(PatchFooter) = 1
    /\ pak.dialog_entries = <<DialogEntry(Dig(1, 4), <<120>>), DialogEntry(Dig(1, 4), <<97>>),
                              DialogEntry(Dig(9, 4), <<110>>)>>
    /\ Len(pak.footer_entries) = Len(inp.x.footer_entries) + 2

(***************************************************************************)
(* ID (scene_file.rs).  An id is a u128: sixteen digits, most significant  *)
(* first.  Its strings are ASCII bytes.                                    *)
(***************************************************************************)
ID_from_u32(id) == Zeros(12) \o id

\* self.id > u32::MAX as u128
exceeds_u32(id) == SubSeq(id, 1, 12) # Zeros(12)

\* ID::to_u32: the low four digits, or the panic
ID_to_u32(id) == [ok |-> ~exceeds_u32(id), val |-> SubSeq(id, 13, 16)]

\* an uppercase hexadecimal digit
hex_char(n) == IF n < 10 THEN 48 + n ELSE 55 + n

\* two hexadecimal digits for each digit of the id
hex_pairs(d) ==
    [i \in 1..(2 * Len(d)) |->
        IF i % 2 = 1 THEN hex_char(d[(i + 1) \div 2] \div 16)
        ELSE hex_char(d[i \div 2] % 16)]

\* no leading '0', but one digit at least
strip_zeros(hex) ==
    LET digits == {i \in 1..Len(hex) : hex[i] # 48 \/ i = Len(hex)}
    IN  IF Len(hex) = 0 THEN hex
        ELSE SubSeq(hex, CHOOSE i \in digits : \A j \in digits : i <= j, Len(hex))

\* format!("{:X}", self.id)
format_X(id) == strip_zeros(hex_pairs(id))

\* while hex.len() < num_bytes as usize * 2 { hex = format!("0{}", hex) }
pad_hex(hex, len) == [i \in 1..(len - Len(hex)) |-> 48] \o hex

RECURSIVE join_pairs(_, _, _)
\* for i in 0..num_bytes: a comma but before the first, then hex[i*2..i*2+2]
join_pairs(hex, i, num_bytes) ==
    IF i >= num_bytes THEN <<>>
    ELSE (IF i > 0 THEN <<44>> ELSE <<>>) \o SubSeq(hex, i * 2 + 1, i * 2 + 2)
             \o join_pairs(hex, i + 1, num_bytes)

ID_to_string(id, num_bytes) ==
    to_lowercase(join_pairs(pad_hex(format_X(id), num_bytes * 2), 0, num_bytes))

RECURSIVE split(_, _)
\* string.split(","), the part begun carried along
split(string, part) ==
    IF Len(string) = 0 THEN <<part>>
    ELSE IF string[1] = 44 THEN <<part>> \o split(Tail(string), <<>>)
    ELSE split(Tail(string), Append(part, string[1]))

RECURSIVE join(_)
\* parts.join(",")
join(parts) ==
    IF Len(parts) = 0 THEN <<>>
    ELSE IF Len(parts) = 1 THEN parts[1]
    ELSE parts[1] \o <<44>> \o join(Tail(parts))

\* part.chars().skip(1) if part.chars().nth(0).unwrap() == '0'; an empty
\* part has no first character
skip_leader(part) == IF part[1] = 48 THEN Tail(part) ELSE part

\* mutant of pad_part: the part is taken as it is
pad_part_not(part) == part

ID_to_string_no_leaders(id, num_bytes) ==
    LET parts == split(ID_to_string(id, num_bytes), <<>>)
    IN  join([i \in 1..Len(parts) |-> skip_leader(parts[i])])

\* while part.len() < 2 { part = format!("0{}", part) }
pad_part(part) == pad_hex(part, 2)

RECURSIVE concat(_)
concat(parts) == IF Len(parts) = 0 THEN <<>> ELSE parts[1] \o concat(Tail(parts))

\* the value of a hexadecimal digit of either case, -1 for another character
hex_value(c) ==
    IF c >= 48 /\ c <= 57 THEN c - 48
    ELSE IF c >= 65 /\ c <= 70 THEN c - 55
    ELSE IF c >= 97 /\ c <= 102 THEN c - 87
    ELSE -1

\* u128::from_str_radix(&hex, 16): Err for no digit, a character that is
\* no digit, or a value beyond 128 bits
from_str_radix(hex) ==
    IF Len(hex) = 0 \/ \E i \in 1..Len(hex) : hex_value(hex[i]) < 0
       \/ Len(strip_zeros(hex)) > 32
    THEN [ok |-> FALSE, val |-> Zeros(16)]
    ELSE LET h == pad_hex(strip_zeros(hex), 32)
         IN  [ok |-> TRUE,
              val |-> [i \in 1..16 |-> 16 * hex_value(h[2 * i - 1]) + hex_value(h[2 * i])]]

\* ID::from_string: the id, or the panic of unwrap
ID_from_string(string) ==
    LET parts == split(string, <<>>)
    IN  from_str_radix(concat([i \in 1..Len(parts) |-> pad_part(parts[i])]))

\* the template-id string of Component::pack, Component::to_dict and
\* build_strings_and_map
template_id_string(template_id) == ID_to_string_no_leaders(template_id, 4)

(***************************************************************************)
(* The strings of an id, and the id parsed back from them.  bin holds the  *)
(* string in hand, pak the result of from_string.                          *)
(***************************************************************************)
MaxIdBytes == 2

ByteSamples == {0, 1, 10, 160, 255}

\* up to MaxIdBytes sampled digits at the top, above the low 32 bits, or at
\* the bottom of the id, zero elsewhere
Ids ==
    {Zeros(k) \o t \o Zeros(16 - k - Len(t)) :
        k \in {0, 12 - MaxIdBytes, 16 - MaxIdBytes}, t \in [1..MaxIdBytes -> ByteSamples]}

IdInit ==
    /\ \E id \in Ids : inp = [id |-> id]
    /\ pak = [ok |-> TRUE, val |-> Zeros(16)]
    /\ bin = <<>>
    /\ pc = "new"
    /\ fm = new(<<>>, "BIG", "OVERWRITE")
    /\ last = NoOp
    /\ nops = 0
    /\ mark = 0

\* a string of the id has been made
Stringed(op, string) ==
    /\ pc = "new"
    /\ bin' = string
    /\ pc' = op
    /\ last' = [op |-> op, arg |-> inp.id, pre |-> bin, ret |-> string]
    /\ nops' = nops + 1
    /\ UNCHANGED <<fm, mark, pak, inp>>

IdToString == Stringed("to_string", ID_to_string(inp.id, 16))

IdToStringNoLeaders == Stringed("to_string_no_leaders", ID_to_string_no_leaders(inp.id, 16))

TemplateIdString == Stringed("template_id", template_id_string(inp.id))

\* ID::from_string of the string in hand
IdFromString ==
    /\ pc \in {"to_string", "to_string_no_leaders", "template_id"}
    /\ pak' = ID_from_string(bin)
    /\ pc' = "parsed"
    /\ last' = [op |-> "from_string", arg |-> bin, pre |-> pc, ret |-> <<>>]
    /\ nops' = nops + 1
    /\ UNCHANGED <<fm, mark, bin, inp>>

IdNext == IdToString \/ IdToStringNoLeaders \/ TemplateIdString \/ IdFromString

SpecId == IdInit /\ [][IdNext]_vars

\* C17: for every template_id in 0 .. 2^128 - 1, the string Component::pack
\* and Component::to_dict emit for it is parsed by ID::from_string to the
\* same template_id.
C17_TemplateIdRoundTrip ==
    (pc = "parsed" /\ last.pre = "template_id") => pak = [ok |-> TRUE, val |-> inp.id]

\* a lowercase hexadecimal digit
LowerHex(n) == IF n < 10 THEN 48 + n ELSE 87 + n

\* the two lowercase digits of digit i of the id
Pair(i) == <<LowerHex(inp.id[i] \div 16), LowerHex(inp.id[i] % 16)>>

\* the pair without its '0' if it starts with one
Stripped(i) == IF inp.id[i] < 16 THEN <<LowerHex(inp.id[i])>> ELSE Pair(i)

RECURSIVE Commas(_, _)
\* the parts from i on, joined by commas
Commas(parts, i) ==
    IF i > Len(parts) THEN <<>>
    ELSE parts[i] \o (IF i < Len(parts) THEN <<44>> ELSE <<>>) \o Commas(parts, i + 1)

\* C18: for every id < 2^128, to_string(16) is sixteen lowercase two-digit
\* hex pairs joined by commas, to_string_no_leaders(16) is the same with one
\* leading '0' removed from each pair that starts with '0', and from_string
\* of the latter is the id.
C18_IdStringRoundTrip ==
    /\ pc = "to_string" => bin = Commas([i \in 1..16 |-> Pair(i)], 1)
    /\ pc = "to_string_no_leaders" => bin = Commas([i \in 1..16 |-> Stripped(i)], 1)
    /\ (pc = "parsed" /\ last.pre = "to_string_no_leaders") =>
          pak = [ok |-> TRUE, val |-> inp.id]

\* "ff,a,0,..,0" has been parsed back to 0xff0a00..00
C18_Witness ==
    /\ pc = "parsed"
    /\ last.pre = "to_string_no_leaders"
    /\ inp.id[1] = 255
    /\ inp.id[2] = 10
    /\ SubSeq(bin, 1, 6) = <<102, 102, 44, 97, 44, 48>>
    /\ Len(bin) = 32
    /\ pak.val = inp.id


(***************************************************************************)
(* Scene files (scene_file.rs).  A string is its UTF-8 bytes.  A JSON      *)
(* value is a record of one shape: a Bool, a Number (sign and u64          *)
(* magnitude of eight digits), a String or an Array of such values.  The   *)
(* value types that carry f32 (Float, Point2, Point3, Matrix3, the         *)
(* colours) are outside the model: no property of the model has them.      *)
(***************************************************************************)
JBool(b) == [kind |-> "Bool", b |-> b, neg |-> FALSE, n |-> <<>>, s |-> <<>>, items |-> <<>>]

JNumber(neg, n) == [kind |-> "Number", b |-> FALSE, neg |-> neg, n |-> n, s |-> <<>>, items |-> <<>>]

JString(s) == [kind |-> "String", b |-> FALSE, neg |-> FALSE, n |-> <<>>, s |-> s, items |-> <<>>]

JArray(items) == [kind |-> "Array", b |-> FALSE, neg |-> FALSE, n |-> <<>>, s |-> <<>>, items |-> items]

is_array(value) == value.kind = "Array"

\* -d on 32 or 16 bits, d in two's complement digits
negate(d) ==
    IF Len(d) = 4 THEN add_u32([i \in 1..4 |-> 255 - d[i]], 1).val
    ELSE Dig((65536 - Num(d)) % 65536, 2)

\* serde_json::Number::from of a u16 or u32
Number_from_unsigned(d) == JNumber(FALSE, Number(d))

\* serde_json::Number::from of an i16 or i32
Number_from_signed(d) ==
    IF d[1] >= 128 THEN JNumber(TRUE, Number(negate(d))) ELSE JNumber(FALSE, Number(d))

\* value.as_u64().unwrap() as uN, for N = 8 * w
as_u64_as(value, w) ==
    [ok |-> value.kind = "Number" /\ ~value.neg,
     val |-> IF value.kind = "Number" THEN SubSeq(value.n, 9 - w, 8) ELSE Zeros(w)]

\* value.as_i64().unwrap() as iN, for N = 8 * w
as_i64_as(value, w) ==
    [ok |-> value.kind = "Number" /\ (value.neg \/ value.n[1] < 128),
     val |-> IF value.kind # "Number" THEN Zeros(w)
             ELSE IF value.neg THEN negate(SubSeq(value.n, 9 - w, 8))
             ELSE SubSeq(value.n, 9 - w, 8)]

\* the class names of the value types
T_Boolean == <<66, 111, 111, 108, 101, 97, 110>>

T_Integer == <<73, 110, 116, 101, 103, 101, 114>>

T_Unsigned_Integer == <<85, 110, 115, 105, 103, 110, 101, 100, 32, 73, 110, 116, 101, 103, 101, 114>>

T_Short == <<83, 104, 111, 114, 116>>

T_Unsigned_Short == <<85, 110, 115, 105, 103, 110, 101, 100, 32, 83, 104, 111, 114, 116>>

T_String == <<83, 116, 114, 105, 110, 103>>

T_Entity_Pointer == <<69, 110, 116, 105, 116, 121, 32, 80, 111, 105, 110, 116, 101, 114>>

JPSGeneralEntity == <<74, 80, 83, 71, 101, 110, 101, 114, 97, 108, 69, 110, 116, 105, 116, 121>>

\* Component::get_name_for_class_name
get_name_for_class_name(class_name) ==
    IF class_name = <<78, 105, 84, 114, 97, 110, 115, 102, 111, 114, 109, 97, 116, 105, 111, 110, 67, 111, 109, 112, 111, 110, 101, 110, 116>>
        THEN <<84, 114, 97, 110, 115, 102, 111, 114, 109, 97, 116, 105, 111, 110>>
    ELSE IF class_name = <<74, 80, 83, 84, 114, 97, 110, 115, 102, 111, 114, 109, 97, 116, 105, 111, 110, 67, 111, 109, 112, 111, 110, 101, 110, 116>>
        THEN <<84, 114, 97, 110, 115, 102, 111, 114, 109, 97, 116, 105, 111, 110>>
    ELSE IF class_name = <<78, 105, 83, 99, 101, 110, 101, 71, 114, 97, 112, 104, 67, 111, 109, 112, 111, 110, 101, 110, 116>>
        THEN <<83, 99, 101, 110, 101, 32, 71, 114, 97, 112, 104>>
    ELSE IF class_name = <<74, 80, 83, 83, 99, 101, 110, 101, 71, 114, 97, 112, 104, 67, 111, 109, 112, 111, 110, 101, 110, 116>>
        THEN <<83, 99, 101, 110, 101, 32, 71, 114, 97, 112, 104>>
    ELSE IF class_name = <<78, 105, 76, 105, 103, 104, 116, 67, 111, 109, 112, 111, 110, 101, 110, 116>>
        THEN <<76, 105, 103, 104, 116>>
    ELSE IF class_name = <<74, 80, 83, 76, 105, 103, 104, 116, 67, 111, 109, 112, 111, 110, 101, 110, 116>>
        THEN <<76, 105, 103, 104, 116>>
    ELSE IF class_name = <<78, 105, 67, 97, 109, 101, 114, 97, 67, 111, 109, 112, 111, 110, 101, 110, 116>>
        THEN <<67, 97, 109, 101, 114, 97>>
    ELSE IF class_name = <<74, 80, 83, 67, 97, 109, 101, 114, 97, 67, 111, 109, 112, 111, 110, 101, 110, 116>>
        THEN <<67, 97, 109, 101, 114, 97>>
    ELSE <<85, 110, 107, 110, 111, 119, 110>>

Versions == {"Version1", "Version2Prototype", "Version2"}

\* SceneFileVersion::Version2Prototype | SceneFileVersion::Version2
V2Family(version) == version \in {"Version2Prototype", "Version2"}

EntityPointer_from_dict(dict) ==
    [ok |-> as_u64_as(dict, 4).ok, id |-> ID_from_u32(as_u64_as(dict, 4).val)]

\* EntityPointer::pack written into the cursor: fm.w_u32(self.id.to_u32())
EntityPointer_pack(f, pointer) ==
    IF ~pointer.ok \/ ~ID_to_u32(pointer.id).ok THEN Panic(f)
    ELSE w_u32(f, ID_to_u32(pointer.id).val)

\* EntityPointer::to_dict: Number::from(self.id.to_u32() as i64)
EntityPointer_to_dict(id) == JNumber(FALSE, Number(ID_to_u32(id).val))

\* strings_offsets_map: the strings in the order they were inserted, each
\* with its offset
map_contains_key(map, string) == \E i \in 1..Len(map) : map[i].key = string

\* the offset under the key; the map is indexed or unwrapped, so no key is a panic
map_get(map, string) ==
    IF map_contains_key(map, string)
    THEN [ok |-> TRUE, val |-> (CHOOSE e \in {map[i] : i \in 1..Len(map)} : e.key = string).offset]
    ELSE [ok |-> FALSE, val |-> 0]

\* fm.w_u32(strings_offsets_map[string])
w_offset(f, map, string) ==
    IF map_get(map, string).ok THEN w_u32(f, Dig(map_get(map, string).val, 4)) ELSE Panic(f)

\* a value converted by unwrap and `as`, written by writer, or the panic
w_converted(f, converted) == IF converted.ok THEN w_u32(f, converted.val) ELSE Panic(f)

\* Property::write_value_for_type
write_value_for_type(f, map, value, value_type) ==
    IF ~f.ok THEN f
    ELSE IF value_type = T_Boolean
    THEN IF value.kind = "Bool" THEN w_bool(f, value.b) ELSE Panic(f)
    ELSE IF value_type = T_Integer THEN w_converted(f, as_i64_as(value, 4))
    ELSE IF value_type = T_Unsigned_Integer THEN w_converted(f, as_u64_as(value, 4))
    ELSE IF value_type = T_Short
    THEN IF as_i64_as(value, 2).ok THEN w_s16_jps(f, as_i64_as(value, 2).val, 0) ELSE Panic(f)
    ELSE IF value_type = T_Unsigned_Short
    THEN IF as_u64_as(value, 2).ok THEN w_u16_jps(f, as_u64_as(value, 2).val, 0) ELSE Panic(f)
    ELSE IF value_type = T_String
    THEN IF value.kind = "String" THEN w_offset(f, map, value.s) ELSE Panic(f)
    ELSE IF value_type = T_Entity_Pointer
    THEN EntityPointer_pack(f, EntityPointer_from_dict(value))
    ELSE Panic(f)

\* the value read, as a JSON value
read_as(r, json) == [fm |-> r.fm, val |-> IF r.fm.ok THEN json ELSE JBool(FALSE)]

\* fm.seek(pos) behind the string read at the pointer
string_at(pointer, text) == [fm |-> seek(text.fm, pointer.fm.pos), val |-> JString(text.val)]

\* let pointer = fm.r_u32(); fm.seek(pointer as usize); fm.r_str_jps()
read_string(pointer) ==
    IF ~pointer.fm.ok THEN [fm |-> pointer.fm, val |-> JBool(FALSE)]
    ELSE string_at(pointer, r_str_jps(seek(pointer.fm, as_usize(pointer.val))))

read_boolean(r) == read_as(r, JBool(r.val))

read_signed(r) == read_as(r, IF r.fm.ok THEN Number_from_signed(r.val) ELSE JBool(FALSE))

read_unsigned(r) == read_as(r, IF r.fm.ok THEN Number_from_unsigned(r.val) ELSE JBool(FALSE))

read_pointer(r) ==
    read_as(r, IF r.fm.ok THEN EntityPointer_to_dict(ID_from_u32(r.val)) ELSE JBool(FALSE))

\* Property::read_value_for_type
read_value_for_type(f, value_type) ==
    IF ~f.ok THEN [fm |-> f, val |-> JBool(FALSE)]
    ELSE IF value_type = T_Boolean THEN read_boolean(r_bool(f))
    ELSE IF value_type = T_Integer THEN read_signed(r_s32(f))
    ELSE IF value_type = T_Unsigned_Integer THEN read_unsigned(r_u32(f))
    ELSE IF value_type = T_Short THEN read_signed(r_s16_jps(f))
    ELSE IF value_type = T_Unsigned_Short THEN read_unsigned(r_u16_jps(f))
    ELSE IF value_type = T_String THEN read_string(r_u32(f))
    ELSE IF value_type = T_Entity_Pointer THEN read_pointer(r_u32(f))
    ELSE [fm |-> Panic(f), val |-> JBool(FALSE)]

Property(class_name, name, asset, palette, template, value) ==
    [class_name |-> class_name, name |-> name, asset |-> asset, palette |-> palette,
     template |-> template, value |-> value]

\* the tag of Property::pack, -1 for its panic
data_type_of(list_mode, asset, palette, template) ==
    IF ~list_mode /\ ~asset /\ ~palette /\ ~template THEN 0
    ELSE IF list_mode /\ ~asset /\ ~palette /\ ~template THEN 1
    ELSE IF ~list_mode /\ asset /\ ~palette /\ ~template THEN 2
    ELSE IF list_mode /\ asset /\ ~palette /\ ~template THEN 3
    ELSE IF ~list_mode /\ ~asset /\ palette /\ ~template THEN 4
    ELSE IF list_mode /\ ~asset /\ ~palette /\ template THEN 5
    ELSE -1

\* the values of Property::pack: those of the array, or the one value
values_of(value) == IF is_array(value) THEN value.items ELSE <<value>>

RECURSIVE write_values(_, _, _, _, _)
\* for value in values
write_values(f, map, values, value_type, i) ==
    IF ~f.ok \/ i > Len(values) THEN f
    ELSE write_values(write_value_for_type(f, map, values[i], value_type),
                      map, values, value_type, i + 1)

\* fm.w_u32(data_type), or the panic
w_data_type(f, data_type) == IF data_type < 0 THEN Panic(f) ELSE w_u32(f, Dig(data_type, 4))

\* Property::pack: the cursor holding the bytes
Property_pack(p, endian_type, map) ==
    write_values(
        w_u32(w_data_type(w_offset(w_offset(new(<<>>, endian_type, "OVERWRITE"),
                                            map, p.name),
                                   map, p.class_name),
                          data_type_of(is_array(p.value), p.asset, p.palette, p.template)),
              Dig(Len(values_of(p.value)), 4)),
        map, values_of(p.value), p.class_name, 1)

\* fm.write(&x.pack(..)): a panic of pack is a panic of the caller
write_packed(f, packed) == IF packed.ok THEN write(f, packed.data) ELSE Panic(f)

\* offset += 4 for the V2 family: the u32 sum and whether the build got there
adjusted(offset, by, version, build) ==
    IF ~V2Family(version) THEN [ok |-> TRUE, val |-> offset]
    ELSE [ok |-> ~(build = "debug" /\ add_u32(offset, by).overflow),
          val |-> add_u32(offset, by).val]

\* a reader's failure
Failure(f) == [fm |-> Panic(f), val |-> <<>>]

\* fm.seek(offset as usize); fm.r_str_jps(), the offset adjusted
pooled(f, offset) ==
    IF ~f.ok \/ ~offset.ok THEN Failure(f) ELSE r_str_jps(seek(f, as_usize(offset.val)))

RECURSIVE read_values(_, _, _, _)
next_value(r, value_type, amount, list) ==
    read_values(r.fm, value_type, amount - 1, Append(list, r.val))

\* for _ in 0..amount { list.push(Property::read_value_for_type(..)) }
read_values(f, value_type, amount, list) ==
    IF amount = 0 \/ ~f.ok THEN [fm |-> f, val |-> JArray(list)]
    ELSE next_value(read_value_for_type(f, value_type), value_type, amount, list)

\* the property with its value read
with_value(p, r) == [fm |-> r.fm, val |-> [p EXCEPT !.value = r.val]]

\* self.value = match list_mode
property_value(p, list_mode, amount) ==
    IF ~amount.fm.ok THEN Failure(amount.fm)
    ELSE IF list_mode
    THEN with_value(p, read_values(amount.fm, p.class_name, as_usize(amount.val), <<>>))
    ELSE with_value(p, read_value_for_type(amount.fm, p.class_name))

\* mutant of property_storage: tags 2 and 3 are taken for palette
property_storage_palette(class_name, name, data_type) ==
    IF ~data_type.fm.ok \/ data_type.val \notin {Dig(t, 4) : t \in 0..5}
    THEN Failure(data_type.fm)
    ELSE property_value(
             Property(class_name, name, FALSE,
                      data_type.val \in {Dig(2, 4), Dig(3, 4), Dig(4, 4)},
                      data_type.val = Dig(5, 4), JBool(FALSE)),
             data_type.val \in {Dig(1, 4), Dig(3, 4), Dig(5, 4)},
             r_u32(data_type.fm))

\* match data_type: the flags of tags 0..5, a panic for any other
property_storage(class_name, name, data_type) ==
    IF ~data_type.fm.ok \/ data_type.val \notin {Dig(t, 4) : t \in 0..5}
    THEN Failure(data_type.fm)
    ELSE property_value(
             Property(class_name, name,
                      data_type.val \in {Dig(2, 4), Dig(3, 4)},
                      data_type.val = Dig(4, 4),
                      data_type.val = Dig(5, 4), JBool(FALSE)),
             data_type.val \in {Dig(1, 4), Dig(3, 4), Dig(5, 4)},
             r_u32(data_type.fm))

\* fm.seek(pos); let data_type = fm.r_u32()
property_names(class_name, name, pos) ==
    IF ~name.fm.ok THEN Failure(name.fm)
    ELSE property_storage(class_name, name.val, r_u32(seek(name.fm, pos)))

property_class_name(class_name, name_offset, pos) ==
    property_names(class_name.val, pooled(class_name.fm, name_offset), pos)

property_offsets(name_offset, class_name_offset, version, build) ==
    IF ~class_name_offset.fm.ok THEN Failure(class_name_offset.fm)
    ELSE property_class_name(
             pooled(class_name_offset.fm, adjusted(class_name_offset.val, 4, version, build)),
             adjusted(name_offset, 4, version, build),
             class_name_offset.fm.pos)

property_name_offset(name_offset, version, build) ==
    property_offsets(name_offset.val, r_u32(name_offset.fm), version, build)

\* Property::unpack
Property_unpack(f, version, build) == property_name_offset(r_u32(f), version, build)

Component(class_name, name, template_id, link_id, master_link_id, properties) ==
    [class_name |-> class_name, name |-> name, template_id |-> template_id,
     link_id |-> link_id, master_link_id |-> master_link_id, properties |-> properties]

\* fm.w_u32(id.to_u32())
w_id(f, id) == IF ID_to_u32(id).ok THEN w_u32(f, ID_to_u32(id).val) ELSE Panic(f)

RECURSIVE pack_properties(_, _, _, _)
\* for property in &self.properties
pack_properties(f, properties, map, i) ==
    IF ~f.ok \/ i > Len(properties) THEN f
    ELSE pack_properties(
             write_packed(f, pack_data(Property_pack(properties[i], f.endian, map))),
             properties, map, i + 1)

\* Component::pack: the cursor holding the bytes
Component_pack(c, endian_type, map) ==
    pack_properties(
        w_u32(w_id(w_id(w_offset(w_offset(new(<<>>, endian_type, "OVERWRITE"),
                                          map, c.class_name),
                                 map, template_id_string(c.template_id)),
                        c.link_id),
                   c.master_link_id),
              Dig(Len(c.properties), 4)),
        c.properties, map, 1)

RECURSIVE unpack_properties(_, _, _, _, _)
next_property(c, r, amount, version, build) ==
    unpack_properties([c EXCEPT !.properties = Append(@, r.val)], r.fm, amount - 1,
                      version, build)

\* for _ in 0..amount { property.unpack(fm, version.clone()) }
unpack_properties(c, f, amount, version, build) ==
    IF ~f.ok THEN Failure(f)
    ELSE IF amount = 0 THEN [fm |-> f, val |-> c]
    ELSE next_property(c, Property_unpack(f, version, build), amount, version, build)

component_amount(c, amount, version, build) ==
    IF ~amount.fm.ok THEN Failure(amount.fm)
    ELSE unpack_properties(c, amount.fm, as_usize(amount.val), version, build)

component_master(c, master_link_id, version, build) ==
    IF ~master_link_id.fm.ok THEN Failure(master_link_id.fm)
    ELSE component_amount([c EXCEPT !.master_link_id = ID_from_u32(master_link_id.val)],
                          r_u32(master_link_id.fm), version, build)

component_link(c, link_id, version, build) ==
    IF ~link_id.fm.ok THEN Failure(link_id.fm)
    ELSE component_master([c EXCEPT !.link_id = ID_from_u32(link_id.val)],
                          r_u32(link_id.fm), version, build)

\* self.template_id = ID::from_string(&template_id_string); fm.seek(pos)
component_template(class_name, template, pos, version, build) ==
    IF ~template.fm.ok \/ ~ID_from_string(template.val).ok THEN Failure(template.fm)
    ELSE component_link(
             Component(class_name, get_name_for_class_name(class_name),
                       ID_from_string(template.val).val, Zeros(16), Zeros(16), <<>>),
             r_u32(seek(template.fm, pos)), version, build)

component_class_name(class_name, template_offset, pos, version, build) ==
    component_template(class_name.val, pooled(class_name.fm, template_offset), pos,
                       version, build)

component_offsets(class_name_offset, template_offset, version, build) ==
    IF ~template_offset.fm.ok THEN Failure(template_offset.fm)
    ELSE component_class_name(
             pooled(template_offset.fm, adjusted(class_name_offset, 4, version, build)),
             adjusted(template_offset.val, 4, version, build),
             template_offset.fm.pos, version, build)

component_class_offset(class_name_offset, version, build) ==
    component_offsets(class_name_offset.val, r_u32(class_name_offset.fm), version, build)

\* Component::unpack
Component_unpack(f, version, build) == component_class_offset(r_u32(f), version, build)

Entity(class_name, name, link_id, master_link_id, unknown, unknown_em2, components) ==
    [class_name |-> class_name, name |-> name, link_id |-> link_id,
     master_link_id |-> master_link_id, unknown |-> unknown,
     unknown_em2 |-> unknown_em2, components |-> components]

RECURSIVE pack_components(_, _, _, _)
\* for component in &self.components
pack_components(f, components, map, i) ==
    IF ~f.ok \/ i > Len(components) THEN f
    ELSE pack_components(
             write_packed(f, pack_data(Component_pack(components[i], f.endian, map))),
             components, map, i + 1)

\* fm.w_u32(self.unknown_em2) for the V2 family
w_unknown_em2(f, e, version) == IF V2Family(version) THEN w_u32(f, e.unknown_em2) ELSE f

\* Entity::pack: the cursor holding the bytes
Entity_pack(e, endian_type, map, version) ==
    pack_components(
        w_u32(w_unknown_em2(
                  w_u32(w_id(w_id(w_offset(new(<<>>, endian_type, "OVERWRITE"), map, e.name),
                                  e.link_id),
                             e.master_link_id),
                        e.unknown),
                  e, version),
              Dig(Len(e.components), 4)),
        e.components, map, 1)

RECURSIVE unpack_components(_, _, _, _, _)
next_component(e, r, amount, version, build) ==
    unpack_components([e EXCEPT !.components = Append(@, r.val)], r.fm, amount - 1,
                      version, build)

\* for _ in 0..amount { component.unpack(fm, version.clone()) }
unpack_components(e, f, amount, version, build) ==
    IF ~f.ok THEN Failure(f)
    ELSE IF amount = 0 THEN [fm |-> f, val |-> e]
    ELSE next_component(e, Component_unpack(f, version, build), amount, version, build)

entity_components(e, amount, version, build) ==
    IF ~amount.fm.ok THEN Failure(amount.fm)
    ELSE unpack_components(e, amount.fm, as_usize(amount.val), version, build)

\* self.unknown_em2 = fm.r_u32() for the V2 family
entity_unknown_em2(e, unknown_em2, version, build) ==
    IF ~unknown_em2.fm.ok THEN Failure(unknown_em2.fm)
    ELSE entity_components([e EXCEPT !.unknown_em2 = unknown_em2.val],
                       r_u32(unknown_em2.fm), version, build)

entity_unknown(e, unknown, version, build) ==
    IF ~unknown.fm.ok THEN Failure(unknown.fm)
    ELSE IF V2Family(version)
    THEN entity_unknown_em2([e EXCEPT !.unknown = unknown.val], r_u32(unknown.fm),
                            version, build)
    ELSE entity_components([e EXCEPT !.unknown = unknown.val], r_u32(unknown.fm),
                       version, build)

entity_master(e, master_link_id, version, build) ==
    IF ~master_link_id.fm.ok THEN Failure(master_link_id.fm)
    ELSE entity_unknown([e EXCEPT !.master_link_id = ID_from_u32(master_link_id.val)],
                        r_u32(master_link_id.fm), version, build)

entity_link(e, link_id, version, build) ==
    IF ~link_id.fm.ok THEN Failure(link_id.fm)
    ELSE entity_master([e EXCEPT !.link_id = ID_from_u32(link_id.val)],
                       r_u32(link_id.fm), version, build)

\* self.name = fm.r_str_jps(); fm.seek(pos)
entity_name(name, pos, version, build) ==
    IF ~name.fm.ok THEN Failure(name.fm)
    ELSE entity_link(Entity(JPSGeneralEntity, name.val, Zeros(16), Zeros(16),
                            Zeros(4), Zeros(4), <<>>),
                     r_u32(seek(name.fm, pos)), version, build)

entity_name_offset(name_offset, version, build) ==
    IF ~name_offset.fm.ok THEN Failure(name_offset.fm)
    ELSE entity_name(pooled(name_offset.fm, adjusted(name_offset.val, 4, version, build)),
                     name_offset.fm.pos, version, build)

\* Entity::unpack
Entity_unpack(f, version, build) == entity_name_offset(r_u32(f), version, build)

SceneFile(objects, scene, em2_extra_strings, unique_id, version) ==
    [objects |-> objects, scene |-> scene, em2_extra_strings |-> em2_extra_strings,
     unique_id |-> unique_id, version |-> version]

\* the strings cursor and the map, or the panic of an unwrap
Strings(f, map) == [fm |-> f, map |-> map]

\* mutant of add_string: the offset is taken from the start of the strings
add_string_from_0(st, start_offset, string) ==
    IF map_contains_key(st.map, string) THEN st
    ELSE Strings(w_str_jps(st.fm, string),
                 Append(st.map, [key |-> string, offset |-> size(st.fm)]))

\* SceneFile::add_string
add_string(st, start_offset, string) ==
    IF map_contains_key(st.map, string) THEN st
    ELSE Strings(w_str_jps(st.fm, string),
                 Append(st.map, [key |-> string, offset |-> size(st.fm) + start_offset]))

\* &value.as_str().unwrap() added
add_value(st, start_offset, value) ==
    IF value.kind = "String" THEN add_string(st, start_offset, value.s)
    ELSE Strings(Panic(st.fm), st.map)

RECURSIVE add_values(_, _, _, _)
\* the String values of a property, of the list or the one
add_values(st, start_offset, values, i) ==
    IF ~st.fm.ok \/ i > Len(values) THEN st
    ELSE add_values(add_value(st, start_offset, values[i]), start_offset, values, i + 1)

\* mutant of add_property: the class name is pooled before the name
add_property_class_first(st, start_offset, p) ==
    IF p.class_name = T_String
    THEN add_values(add_string(add_string(st, start_offset, p.class_name), start_offset, p.name),
                    start_offset, values_of(p.value), 1)
    ELSE add_string(add_string(st, start_offset, p.class_name), start_offset, p.name)

\* name, class name and, for a String property, its values
add_property(st, start_offset, p) ==
    IF p.class_name = T_String
    THEN add_values(add_string(add_string(st, start_offset, p.name), start_offset, p.class_name),
                    start_offset, values_of(p.value), 1)
    ELSE add_string(add_string(st, start_offset, p.name), start_offset, p.class_name)

RECURSIVE add_properties(_, _, _, _)
add_properties(st, start_offset, properties, i) ==
    IF ~st.fm.ok \/ i > Len(properties) THEN st
    ELSE add_properties(add_property(st, start_offset, properties[i]), start_offset,
                        properties, i + 1)

\* class name, template id and the properties
add_component(st, start_offset, c) ==
    add_properties(
        add_string(add_string(st, start_offset, c.class_name), start_offset,
                   template_id_string(c.template_id)),
        start_offset, c.properties, 1)

RECURSIVE add_components(_, _, _, _)
add_components(st, start_offset, components, i) ==
    IF ~st.fm.ok \/ i > Len(components) THEN st
    ELSE add_components(add_component(st, start_offset, components[i]), start_offset,
                        components, i + 1)

RECURSIVE add_entities(_, _, _, _)
\* for entity in &self.objects
add_entities(st, start_offset, objects, i) ==
    IF ~st.fm.ok \/ i > Len(objects) THEN st
    ELSE add_entities(
             add_components(add_string(st, start_offset, objects[i].name), start_offset,
                            objects[i].components, 1),
             start_offset, objects, i + 1)

\* SceneFile::build_strings_and_map
build_strings_and_map(x) ==
    add_entities(Strings(new(<<>>, "BIG", "OVERWRITE"), <<>>), 4, x.objects, 1)

RECURSIVE pack_entities(_, _, _, _, _)
\* for entity in &self.objects
pack_entities(f, objects, map, version, i) ==
    IF ~f.ok \/ i > Len(objects) THEN f
    ELSE pack_entities(
             write_packed(f, pack_data(Entity_pack(objects[i], f.endian, map, version))),
             objects, map, version, i + 1)

RECURSIVE pack_scene(_, _, _)
\* for id in &self.scene
pack_scene(f, scene, i) ==
    IF ~f.ok \/ i > Len(scene) THEN f ELSE pack_scene(w_id(f, scene[i]), scene, i + 1)

RECURSIVE pack_extra_strings(_, _, _)
\* for string in &self.em2_extra_strings
pack_extra_strings(f, strings, i) ==
    IF ~f.ok \/ i > Len(strings) THEN f
    ELSE pack_extra_strings(w_str_jps(f, strings[i]), strings, i + 1)

\* the sentinel of the V2 family, and the data offset
pack_sentinel(f, version) == IF V2Family(version) THEN w_u32(f, <<1, 0, 0, 1>>) ELSE f

\* the version tag behind the strings
pack_version(f, version) ==
    IF version = "Version2" THEN w_u32(f, <<2, 0, 0, 2>>)
    ELSE IF version = "Version2Prototype" THEN w_u32(f, <<2, 0, 0, 1>>)
    ELSE f

pack_unique_id(f, x) ==
    IF x.version \in {"Version1", "Version2Prototype"} THEN w_u128(f, x.unique_id) ELSE f

pack_em2(f, x) ==
    IF V2Family(x.version)
    THEN pack_extra_strings(w_u32(f, Dig(Len(x.em2_extra_strings), 4)),
                            x.em2_extra_strings, 1)
    ELSE f

\* SceneFile::pack, the strings built: a panic in building them is one of pack
pack_strings(x, endian_type, st) ==
    IF ~st.fm.ok THEN Panic(st.fm)
    ELSE pack_scene(
             pack_entities(
                 w_u32(w_u32(
                     pack_em2(pack_unique_id(pack_version(
                         write(w_u32(pack_sentinel(new(<<>>, endian_type, "OVERWRITE"),
                                                   x.version),
                                     Dig(Len(st.fm.data) + 4, 4)),
                               st.fm.data),
                         x.version), x), x),
                     Dig(Len(x.objects), 4)), Dig(Len(x.scene), 4)),
                 x.objects, st.map, x.version, 1),
             x.scene, 1)

\* SceneFile::pack
SceneFile_pack(x, endian_type) ==
    pack_data(pack_strings(x, endian_type, build_strings_and_map(x)))

SceneFile_to_binary(x, endian_type) == SceneFile_pack(x, endian_type)

RECURSIVE unpack_scene(_, _, _)
\* for _ in 0..ref_ids_amount { self.scene.push(ID::from_u32(fm.r_u32())) }
next_scene(x, id, amount) ==
    IF ~id.fm.ok THEN Failure(id.fm)
    ELSE unpack_scene([x EXCEPT !.scene = Append(@, ID_from_u32(id.val))], id.fm, amount - 1)

unpack_scene(x, f, amount) ==
    IF ~f.ok THEN Failure(f)
    ELSE IF amount = 0 THEN [fm |-> f, val |-> x]
    ELSE next_scene(x, r_u32(f), amount)

RECURSIVE unpack_entities(_, _, _, _, _)
next_entity(x, r, amount, ref_ids_amount, build) ==
    IF ~r.fm.ok THEN Failure(r.fm)
    ELSE unpack_entities([x EXCEPT !.objects = Append(@, r.val)], r.fm, amount - 1,
                         ref_ids_amount, build)

\* for _ in 0..entity_amount { entity.unpack(fm, self.version.clone()) }, then the scene
unpack_entities(x, f, amount, ref_ids_amount, build) ==
    IF ~f.ok THEN Failure(f)
    ELSE IF amount = 0 THEN unpack_scene(x, f, ref_ids_amount)
    ELSE next_entity(x, Entity_unpack(f, x.version, build), amount, ref_ids_amount, build)

scene_amounts(x, entity_amount, ref_ids_amount, build) ==
    IF ~ref_ids_amount.fm.ok THEN Failure(ref_ids_amount.fm)
    ELSE unpack_entities(x, ref_ids_amount.fm, as_usize(entity_amount),
                         as_usize(ref_ids_amount.val), build)

scene_entity_amount(x, entity_amount, build) ==
    IF ~entity_amount.fm.ok THEN Failure(entity_amount.fm)
    ELSE scene_amounts(x, entity_amount.val, r_u32(entity_amount.fm), build)

RECURSIVE unpack_extra_strings(_, _, _, _)
next_extra_string(x, string, amount, build) ==
    IF ~string.fm.ok THEN Failure(string.fm)
    ELSE unpack_extra_strings([x EXCEPT !.em2_extra_strings = Append(@, string.val)],
                              string.fm, amount - 1, build)

\* for _ in 0..em2_extra_strings_amount, then the amounts
unpack_extra_strings(x, f, amount, build) ==
    IF ~f.ok THEN Failure(f)
    ELSE IF amount = 0 THEN scene_entity_amount(x, r_u32(f), build)
    ELSE next_extra_string(x, r_str_jps(f), amount, build)

scene_em2_amount(x, amount, build) ==
    IF ~amount.fm.ok THEN Failure(amount.fm)
    ELSE unpack_extra_strings(x, amount.fm, as_usize(amount.val), build)

\* the em2 extra strings of the V2 family
scene_em2(x, f, build) ==
    IF ~f.ok THEN Failure(f)
    ELSE IF V2Family(x.version) THEN scene_em2_amount(x, r_u32(f), build)
    ELSE scene_entity_amount(x, r_u32(f), build)

scene_unique_id(x, unique_id, build) ==
    IF ~unique_id.fm.ok THEN Failure(unique_id.fm)
    ELSE scene_em2([x EXCEPT !.unique_id = unique_id.val], unique_id.fm, build)

\* fm.seek(data_offset as usize), the offset raised by 8 for the V2 family
scene_data(x, f, data_offset, build) ==
    IF ~data_offset.ok THEN Failure(f)
    ELSE IF x.version \in {"Version1", "Version2Prototype"}
    THEN scene_unique_id(x, r_u128(seek(f, as_usize(data_offset.val))), build)
    ELSE scene_em2(x, seek(f, as_usize(data_offset.val)), build)

scene_data_offset(x, data_offset, build) ==
    IF ~data_offset.fm.ok THEN Failure(data_offset.fm)
    ELSE scene_data(x, data_offset.fm, adjusted(data_offset.val, 8, x.version, build), build)

\* SceneFile::unpack
SceneFile_unpack(x, f, build) ==
    scene_data_offset(x, r_u32(IF V2Family(x.version) THEN move_pos(f, 4) ELSE f), build)

\* the outcome of SceneFile::from_binary: the version routed to, and the
\* scene or the panic
Routed(version, r) ==
    [ok |-> r.fm.ok, err |-> IF r.fm.ok THEN "" ELSE "panic", version |-> version,
     scene |-> IF r.fm.ok THEN r.val ELSE SceneFile(<<>>, <<>>, <<>>, Zeros(16), version)]

\* fm.seek(0); scene_file.unpack(&mut fm)
unpack_as(f, version, build) ==
    Routed(version,
           SceneFile_unpack(SceneFile(<<>>, <<>>, <<>>, Zeros(16), version),
                            seek(f, 0), build))

Unrouted(err) ==
    [ok |-> FALSE, err |-> err, version |-> "",
     scene |-> SceneFile(<<>>, <<>>, <<>>, Zeros(16), "")]

\* mutant of route_family: the two tags are taken for each other
route_family_swapped(num, build) ==
    IF ~num.fm.ok THEN Unrouted("panic")
    ELSE IF num.val = <<2, 0, 0, 2>> THEN unpack_as(num.fm, "Version2Prototype", build)
    ELSE IF num.val = <<2, 0, 0, 1>> THEN unpack_as(num.fm, "Version2", build)
    ELSE Unrouted("Unknown version!!!")

\* match num
route_family(num, build) ==
    IF ~num.fm.ok THEN Unrouted("panic")
    ELSE IF num.val = <<2, 0, 0, 2>> THEN unpack_as(num.fm, "Version2", build)
    ELSE IF num.val = <<2, 0, 0, 1>> THEN unpack_as(num.fm, "Version2Prototype", build)
    ELSE Unrouted("Unknown version!!!")

\* let offset = fm.r_u32() + 4; fm.seek(offset as usize); let num = fm.r_u32()
route_offset(offset, build) ==
    IF ~offset.fm.ok \/ (build = "debug" /\ add_u32(offset.val, 4).overflow)
    THEN Unrouted("panic")
    ELSE route_family(r_u32(seek(offset.fm, as_usize(add_u32(offset.val, 4).val))), build)

\* match first_four_bytes
route(first_four_bytes, build) ==
    IF ~first_four_bytes.fm.ok THEN Unrouted("panic")
    ELSE IF first_four_bytes.val = <<1, 0, 0, 1>>
    THEN route_offset(r_u32(first_four_bytes.fm), build)
    ELSE unpack_as(first_four_bytes.fm, "Version1", build)

\* SceneFile::from_binary
SceneFile_from_binary(data, endian_type, build) ==
    route(r_u32(new(data, endian_type, "OVERWRITE")), build)

(***************************************************************************)
(* Scene round trip: x.to_binary(e) and SceneFile::from_binary of the      *)
(* bytes with the same endian.  inp holds the scene x and the endian e,    *)
(* pak the outcome of from_binary.                                         *)
(***************************************************************************)
MaxProps == 2

NiLightComponent == <<78, 105, 76, 105, 103, 104, 116, 67, 111, 109, 112, 111, 110, 101, 110, 116>>

\* inline values under each storage tag but 2, a name used twice, and String
\* values, one of them pooled already and one empty
SceneProperties ==
    {Property(T_Boolean, <<112>>, FALSE, FALSE, FALSE, JBool(TRUE)),
     Property(T_Integer, <<113>>, TRUE, FALSE, FALSE,
              JArray(<<JNumber(TRUE, Number(Dig(2, 4))), JNumber(FALSE, Number(Dig(5, 4)))>>)),
     Property(T_Unsigned_Integer, <<112>>, FALSE, TRUE, FALSE,
              JNumber(FALSE, Number(<<255, 255, 255, 254>>))),
     Property(T_Entity_Pointer, <<114>>, FALSE, FALSE, TRUE,
              JArray(<<JNumber(FALSE, Number(Dig(7, 4)))>>)),
     Property(T_String, <<115>>, FALSE, FALSE, FALSE, JString(<<104, 105>>)),
     Property(T_String, <<116>>, FALSE, FALSE, FALSE,
              JArray(<<JString(<<65>>), JString(<<>>)>>))}

\* a template id below 2^32 and one above
TemplateIds == {Zeros(14) \o <<31, 10>>, Zeros(11) \o <<10, 0, 0, 0, 0>>}

\* a second entity, named as the first or not
SecondEntities ==
    {<<>>,
     <<Entity(JPSGeneralEntity, <<65>>, ID_from_u32(Dig(4, 4)), ID_from_u32(Dig(1, 4)),
              Dig(0, 4), Dig(0, 4), <<>>)>>,
     <<Entity(JPSGeneralEntity, <<98, 99>>, ID_from_u32(Dig(4, 4)), ID_from_u32(Dig(1, 4)),
              Dig(0, 4), Dig(0, 4), <<>>)>>}

\* an entity "A" of two components, the first with the properties, and
\* perhaps a second entity; two scene references
Scene(version, template_id, properties, second) ==
    SceneFile(
        <<Entity(JPSGeneralEntity, <<65>>, ID_from_u32(Dig(1, 4)), ID_from_u32(Dig(0, 4)),
                 <<0, 0, 222, 173>>, IF V2Family(version) THEN Dig(5, 4) ELSE Dig(0, 4),
                 <<Component(NiLightComponent, get_name_for_class_name(NiLightComponent),
                             template_id, ID_from_u32(<<1, 2, 3, 4>>), ID_from_u32(Dig(1, 4)),
                             properties),
                   Component(<<88>>, get_name_for_class_name(<<88>>), Zeros(16),
                             ID_from_u32(Dig(3, 4)), ID_from_u32(Dig(0, 4)),
                             <<Property(T_Boolean, <<112>>, FALSE, FALSE, FALSE,
                                        JBool(FALSE))>>)>>)>> \o second,
        <<ID_from_u32(Dig(7, 4)), ID_from_u32(<<1, 0, 0, 2>>)>>,
        IF V2Family(version) THEN <<<<120>>, <<>>>> ELSE <<>>,
        IF version = "Version2" THEN Zeros(16) ELSE Zeros(15) \o <<9>>,
        version)

SceneInit ==
    /\ \E version \in Versions : \E template_id \in TemplateIds :
       \E n \in 0..MaxProps : \E properties \in [1..n -> SceneProperties] :
       \E second \in SecondEntities :
          pak = [ok |-> TRUE, err |-> "", version |-> version,
                 scene |-> Scene(version, template_id, properties, second)]
    /\ \E e \in Endians : inp = [x |-> pak.scene, e |-> e]
    /\ bin = <<>>
    /\ pc = "new"
    /\ fm = new(<<>>, "BIG", "OVERWRITE")
    /\ last = NoOp
    /\ nops = 0
    /\ mark = 0

\* x.to_binary(e) has returned r, or panicked
ScenePacked(r) ==
    /\ bin' = r.data
    /\ last' = [op |-> "SceneFile::to_binary", arg |-> inp.e, pre |-> bin,
                ret |-> [ok |-> r.ok]]
    /\ pc' = IF r.ok THEN "packed" ELSE "panicked"

SceneToBinary ==
    /\ pc = "new"
    /\ ScenePacked(SceneFile_to_binary(inp.x, inp.e))
    /\ nops' = nops + 1
    /\ UNCHANGED <<fm, mark, pak, inp>>

\* SceneFile::from_binary(bin, e) has returned r, or panicked
SceneParsed(build, r) ==
    /\ pak' = r
    /\ last' = [op |-> "SceneFile::from_binary", arg |-> build, pre |-> bin,
                ret |-> [ok |-> r.ok]]
    /\ pc' = IF r.ok THEN "parsed" ELSE "panicked"

SceneFromBinary ==
    /\ pc = "packed"
    /\ \E build \in Builds : SceneParsed(build, SceneFile_from_binary(bin, inp.e, build))
    /\ nops' = nops + 1
    /\ UNCHANGED <<fm, mark, bin, inp>>

SceneNext == SceneToBinary \/ SceneFromBinary

SpecScene == SceneInit /\ [][SceneNext]_vars

\* the places of the properties of a scene: entity, component, property
Places(x) ==
    {<<i, j, k>> \in (1..Len(x.objects)) \X (1..2) \X (1..(MaxProps + 1)) :
        /\ j <= Len(x.objects[i].components)
        /\ k <= Len(x.objects[i].components[j].properties)}

PropertyAt(x, at) == x.objects[at[1]].components[at[2]].properties[at[3]]

\* no property of the scene is of class String: every value is inline
InlineOnly(x) == \A at \in Places(x) : PropertyAt(x, at).class_name # T_String

\* names, class names, link ids and properties of the components of two
\* entities are the same, in order
SameComponents(a, b) ==
    /\ Len(a) = Len(b)
    /\ \A j \in 1..Len(a) :
          /\ a[j].class_name = b[j].class_name
          /\ a[j].name = b[j].name
          /\ a[j].link_id = b[j].link_id
          /\ a[j].master_link_id = b[j].master_link_id
          /\ a[j].properties = b[j].properties

SameEntities(a, b) ==
    /\ Len(a) = Len(b)
    /\ \A i \in 1..Len(a) :
          /\ a[i].class_name = b[i].class_name
          /\ a[i].name = b[i].name
          /\ a[i].link_id = b[i].link_id
          /\ a[i].master_link_id = b[i].master_link_id
          /\ SameComponents(a[i].components, b[i].components)

StringPlaces(x) == {at \in Places(x) : PropertyAt(x, at).class_name = T_String}

\* C15: a Version2 or Version2Prototype scene with a property of class
\* String, scalar or list, comes back from from_binary(to_binary(x)) with
\* the same string value or values for that property.
C15_StringRoundTrip ==
    (pc \in {"parsed", "panicked"} /\ V2Family(inp.x.version) /\ StringPlaces(inp.x) # {}) =>
        /\ pak.ok
        /\ \A at \in StringPlaces(inp.x) :
              PropertyAt(pak.scene, at).value = PropertyAt(inp.x, at).value

(***************************************************************************)
(* The routing of SceneFile::from_binary.  A scene is packed; the bytes    *)
(* are handed to from_binary as they are, or with the version tag or the   *)
(* first u32 written over.  mark holds what was written over.              *)
(***************************************************************************)
\* the tags written over the version tag: the two versions and three others
Tags == {<<2, 0, 0, 2>>, <<2, 0, 0, 1>>, <<2, 0, 0, 0>>, <<1, 0, 0, 1>>, <<0, 0, 0, 0>>}

\* the values written over the first u32: none is the sentinel
Firsts == {<<0, 0, 0, 0>>, <<0, 0, 0, 9>>, <<0, 0, 1, 1>>}

\* the scenes routed: no entity and perhaps a scene reference, or the entity
\* "A" and perhaps a second
RouteScenes(version) ==
    {SceneFile(<<>>, scene, <<>>, unique_id, version) :
        scene \in {<<>>, <<ID_from_u32(Dig(7, 4))>>},
        unique_id \in {Zeros(16), Zeros(15) \o <<9>>}}
    \cup {Scene(version, Zeros(14) \o <<31, 10>>, <<>>, second) : second \in SecondEntities}

RouteInit ==
    /\ \E version \in Versions : \E x \in RouteScenes(version) :
          pak = [ok |-> TRUE, err |-> "", version |-> version, scene |-> x]
    /\ \E e \in Endians : inp = [x |-> pak.scene, e |-> e]
    /\ bin = <<>>
    /\ pc = "new"
    /\ fm = new(<<>>, "BIG", "OVERWRITE")
    /\ last = NoOp
    /\ nops = 0
    /\ mark = [at |-> -1, val |-> <<>>]

RouteToBinary ==
    /\ pc = "new"
    /\ ScenePacked(SceneFile_to_binary(inp.x, inp.e))
    /\ nops' = nops + 1
    /\ UNCHANGED <<fm, mark, pak, inp>>

\* the u32 at the offset, by the endian of the file
U32Of(data, at, e) ==
    IF e = "BIG" THEN SubSeq(data, at + 1, at + 4) ELSE Reverse(SubSeq(data, at + 1, at + 4))

\* the u32 at the offset is written over
WriteOver(at, val) ==
    /\ bin' = w_u32(seek(new(bin, inp.e, "OVERWRITE"), at), val).data
    /\ mark' = [at |-> at, val |-> val]
    /\ pc' = "written over"
    /\ last' = [op |-> "write over", arg |-> val, pre |-> bin, ret |-> <<>>]
    /\ nops' = nops + 1
    /\ UNCHANGED <<fm, pak, inp>>

\* the version tag of a file of the V2 family, at data_offset_rel + 4
Retag ==
    /\ pc = "packed"
    /\ V2Family(inp.x.version)
    /\ \E tag \in Tags : WriteOver(Num(U32Of(bin, 4, inp.e)) + 4, tag)

\* the first u32 of a file without entities
Resentinel ==
    /\ pc = "packed"
    /\ Len(inp.x.objects) = 0
    /\ \E first \in Firsts : WriteOver(0, first)

RouteFromBinary ==
    /\ pc \in {"packed", "written over"}
    /\ \E build \in Builds : SceneParsed(build, SceneFile_from_binary(bin, inp.e, build))
    /\ nops' = nops + 1
    /\ UNCHANGED <<fm, mark, bin, inp>>

RouteNext == RouteToBinary \/ Retag \/ Resentinel \/ RouteFromBinary

SpecRoute == RouteInit /\ [][RouteNext]_vars

\* C13: from_binary routes a file whose first u32 is 0x01000001 by the u32
\* at data_offset_rel + 4, 0x02000002 to Version2, 0x02000001 to
\* Version2Prototype, any other to the failure "Unknown version!!!"; a file
\* with another first u32 to Version1; and the bytes of pack to the version
\* packed.
C13_VersionRouting ==
    pc \in {"parsed", "panicked"} =>
        /\ IF U32Of(bin, 0, inp.e) = <<1, 0, 0, 1>>
           THEN LET num == U32Of(bin, Num(U32Of(bin, 4, inp.e)) + 4, inp.e)
                IN  /\ num = <<2, 0, 0, 2>> => pak.version = "Version2"
                    /\ num = <<2, 0, 0, 1>> => pak.version = "Version2Prototype"
                    /\ num \notin {<<2, 0, 0, 2>>, <<2, 0, 0, 1>>} =>
                          ~pak.ok /\ pak.err = "Unknown version!!!"
           ELSE pak.version = "Version1"
        /\ mark.at = -1 => pak.ok /\ pak.version = inp.x.version

\* a Version2 file retagged 0x02000001 has been routed to Version2Prototype
C13_Witness ==
    /\ pc \in {"parsed", "panicked"}
    /\ inp.x.version = "Version2"
    /\ mark.val = <<2, 0, 0, 1>>
    /\ mark.at > 0
    /\ pak.version = "Version2Prototype"

(***************************************************************************)
(* The storage mode of a property.  A property is packed behind its pool   *)
(* of strings, as in a Version1 file; the tag may be written over before   *)
(* the bytes are unpacked.  mark holds the offset of the property.         *)
(***************************************************************************)
\* a scalar and a list of each of two classes
PropertyValues ==
    {[class_name |-> T_Boolean, value |-> JBool(TRUE)],
     [class_name |-> T_Boolean, value |-> JArray(<<JBool(FALSE), JBool(TRUE)>>)],
     [class_name |-> T_Integer, value |-> JNumber(TRUE, Number(Dig(2, 4)))],
     [class_name |-> T_Integer, value |-> JArray(<<JNumber(FALSE, Number(Dig(5, 4)))>>)]}

\* the tags written over the tag of pack
StorageTags == {Dig(t, 4) : t \in 0..7} \cup {<<0, 0, 1, 0>>, <<1, 0, 0, 0>>, <<255, 255, 255, 255>>}

PropertyInit ==
    /\ \E v \in PropertyValues : \E asset \in BOOLEAN : \E palette \in BOOLEAN :
       \E template \in BOOLEAN : \E e \in Endians :
          inp = [p |-> Property(v.class_name, <<112>>, asset, palette, template, v.value),
                 e |-> e]
    /\ pak = [ok |-> TRUE, val |-> inp.p]
    /\ bin = <<>>
    /\ pc = "new"
    /\ fm = new(<<>>, "BIG", "OVERWRITE")
    /\ last = NoOp
    /\ nops = 0
    /\ mark = 0

\* the strings of the property are built, and the property is packed behind
\* the four bytes of the data offset and the strings
PropertyPacked(st, r) ==
    /\ bin' = IF r.ok THEN Zeros(4) \o st.fm.data \o r.data ELSE <<>>
    /\ mark' = 4 + Len(st.fm.data)
    /\ pc' = IF r.ok THEN "packed" ELSE "pack panicked"
    /\ last' = [op |-> "Property::pack", arg |-> inp.e, pre |-> bin, ret |-> [ok |-> r.ok]]

PropertyPackedWith(st) == PropertyPacked(st, pack_data(Property_pack(inp.p, inp.e, st.map)))

PropertyPack ==
    /\ pc = "new"
    /\ PropertyPackedWith(add_property(Strings(new(<<>>, "BIG", "OVERWRITE"), <<>>), 4, inp.p))
    /\ nops' = nops + 1
    /\ UNCHANGED <<fm, pak, inp>>

\* the tag, behind the two offsets, is written over
PropertyRetag ==
    /\ pc = "packed"
    /\ \E tag \in StorageTags :
          /\ bin' = w_u32(seek(new(bin, inp.e, "OVERWRITE"), mark + 8), tag).data
          /\ last' = [op |-> "write over", arg |-> tag, pre |-> bin, ret |-> <<>>]
    /\ pc' = "written over"
    /\ nops' = nops + 1
    /\ UNCHANGED <<fm, pak, inp, mark>>

\* Property::unpack has returned r, or panicked
PropertyUnpacked(build, r) ==
    /\ pak' = [ok |-> r.fm.ok, val |-> IF r.fm.ok THEN r.val ELSE inp.p]
    /\ pc' = IF r.fm.ok THEN "unpacked" ELSE "unpack panicked"
    /\ last' = [op |-> "Property::unpack", arg |-> build, pre |-> pc, ret |-> [ok |-> r.fm.ok]]

PropertyUnpack ==
    /\ pc \in {"packed", "written over"}
    /\ \E build \in Builds :
          PropertyUnpacked(build,
              Property_unpack(seek(new(bin, inp.e, "OVERWRITE"), mark), "Version1", build))
    /\ nops' = nops + 1
    /\ UNCHANGED <<fm, bin, inp, mark>>

PropertyNext == PropertyPack \/ PropertyRetag \/ PropertyUnpack

SpecProperty == PropertyInit /\ [][PropertyNext]_vars

\* (is_list, asset, palette, template) of tags 0..5, in order
StorageModes ==
    <<<<FALSE, FALSE, FALSE, FALSE>>, <<TRUE, FALSE, FALSE, FALSE>>,
      <<FALSE, TRUE, FALSE, FALSE>>, <<TRUE, TRUE, FALSE, FALSE>>,
      <<FALSE, FALSE, TRUE, FALSE>>, <<TRUE, FALSE, FALSE, TRUE>>>>

StorageMode(p) == <<is_array(p.value), p.asset, p.palette, p.template>>

\* the tag in the bytes in hand
TagInHand == U32Of(bin, mark + 8, inp.e)

\* C16: Property::pack writes tag t of 0..5 for the t-th of the six storage
\* modes and fails for the other ten combinations; Property::unpack maps
\* each tag of 0..5 back to the four booleans of its mode and fails for
\* every other tag.
C16_StorageMode ==
    /\ pc = "packed" =>
          \E t \in 0..5 : StorageModes[t + 1] = StorageMode(inp.p) /\ TagInHand = Dig(t, 4)
    /\ pc = "pack panicked" => \A t \in 0..5 : StorageModes[t + 1] # StorageMode(inp.p)
    /\ pc \in {"unpacked", "unpack panicked"} =>
          IF TagInHand \in {Dig(t, 4) : t \in 0..5}
          THEN pak.ok /\ StorageMode(pak.val) = StorageModes[Num(TagInHand) + 1]
          ELSE ~pak.ok

\* a scalar asset property, of tag 2, has come back a template list after
\* its tag was written over with 5
C16_Witness ==
    /\ pc = "unpacked"
    /\ last.pre = "written over"
    /\ StorageMode(inp.p) = <<FALSE, TRUE, FALSE, FALSE>>
    /\ TagInHand = Dig(5, 4)
    /\ StorageMode(pak.val) = <<TRUE, FALSE, FALSE, TRUE>>


(***************************************************************************)
(* The merge of a JSON patch into a scene.  A dict of a property has the   *)
(* fields of Property::to_dict; the dicts of a component, an entity and a  *)
(* scene hold their optional keys as Absent or Present.  A merge yields    *)
(* [ok, val], ok FALSE for a panic.                                        *)
(***************************************************************************)
Merged(val) == [ok |-> TRUE, val |-> val]

MergePanic(val) == [ok |-> FALSE, val |-> val]

\* Property::from_dict
Property_from_dict(dict) ==
    Property(dict.class_name, dict.name, dict.asset, dict.palette, dict.template, dict.value)

\* Property::merge_in_dict: the values of an array are pushed one by one
\* onto self.value.as_array_mut().unwrap(), any other value is assigned
Property_merge_in_dict(p, dict) ==
    IF is_array(dict.value)
    THEN IF dict.value.items = <<>> THEN Merged(p)
         ELSE IF is_array(p.value)
         THEN Merged([p EXCEPT !.value = JArray(p.value.items \o dict.value.items)])
         ELSE MergePanic(p)
    ELSE Merged([p EXCEPT !.value = dict.value])

\* the index of the first item that is the one sought, or 0
first_index(items, Sought(_)) ==
    IF \E i \in 1..Len(items) : Sought(items[i])
    THEN CHOOSE i \in 1..Len(items) :
            Sought(items[i]) /\ \A j \in 1..(i - 1) : ~Sought(items[j])
    ELSE 0

\* the component with property at merged, or given up
property_merged(c, at, merged) ==
    IF merged.ok THEN Merged([c EXCEPT !.properties[at] = merged.val]) ELSE MergePanic(c)

\* the property of the name is merged, or the patch property pushed
merge_property(c, property) ==
    LET at == first_index(c.properties, LAMBDA p : p.name = property.name)
    IN  IF at # 0
        THEN property_merged(c, at, Property_merge_in_dict(c.properties[at], property))
        ELSE Merged([c EXCEPT !.properties = Append(@, Property_from_dict(property))])

RECURSIVE merge_properties(_, _, _)
\* for property in dict["properties"].as_array().unwrap()
merge_properties(c, properties, i) ==
    IF ~c.ok \/ i > Len(properties) THEN c
    ELSE merge_properties(merge_property(c.val, properties[i]), properties, i + 1)

\* Component::merge_in_dict
Component_merge_in_dict(c, dict) ==
    IF dict.properties.present THEN merge_properties(Merged(c), dict.properties.val, 1)
    ELSE Merged(c)

\* the dict of a component: name, master_link_id and properties are optional
ComponentDict(class_name, name, template_id, link_id, master_link_id, properties) ==
    [class_name |-> class_name, name |-> name, template_id |-> template_id,
     link_id |-> link_id, master_link_id |-> master_link_id, properties |-> properties]

\* Component::from_dict
Component_from_dict(dict) ==
    [ok |-> ID_from_string(dict.template_id).ok,
     val |-> Component(dict.class_name,
                       IF dict.name.present THEN dict.name.val
                       ELSE get_name_for_class_name(dict.class_name),
                       ID_from_string(dict.template_id).val,
                       ID_from_u32(as_u32(dict.link_id)),
                       IF dict.master_link_id.present
                       THEN ID_from_u32(as_u32(dict.master_link_id.val)) ELSE Zeros(16),
                       IF dict.properties.present
                       THEN [i \in 1..Len(dict.properties.val) |->
                                Property_from_dict(dict.properties.val[i])]
                       ELSE <<>>)]

\* the entity with the component at merged or the component pushed, or given up
component_merged(e, at, merged) ==
    IF ~merged.ok THEN MergePanic(e)
    ELSE IF at # 0 THEN Merged([e EXCEPT !.components[at] = merged.val])
    ELSE Merged([e EXCEPT !.components = Append(@, merged.val)])

\* the component of the class name is merged, or the patch component pushed
merge_component(e, component) ==
    LET at == first_index(e.components, LAMBDA c : c.class_name = component.class_name)
    IN  IF at # 0
        THEN component_merged(e, at, Component_merge_in_dict(e.components[at], component))
        ELSE component_merged(e, 0, Component_from_dict(component))

RECURSIVE merge_components(_, _, _)
\* for component in dict["components"].as_array().unwrap()
merge_components(e, components, i) ==
    IF ~e.ok \/ i > Len(components) THEN e
    ELSE merge_components(merge_component(e.val, components[i]), components, i + 1)

\* Entity::merge_in_dict
Entity_merge_in_dict(e, dict) ==
    IF dict.components.present THEN merge_components(Merged(e), dict.components.val, 1)
    ELSE Merged(e)

\* the dict of an entity: all but name and link_id are optional
EntityDict(class_name, name, link_id, master_link_id, unknown, unknown_em2, components) ==
    [class_name |-> class_name, name |-> name, link_id |-> link_id,
     master_link_id |-> master_link_id, unknown |-> unknown,
     unknown_em2 |-> unknown_em2, components |-> components]

\* the components of Entity::from_dict, or the panic of one
components_from_dict(components) ==
    [ok |-> \A i \in 1..Len(components) : Component_from_dict(components[i]).ok,
     val |-> [i \in 1..Len(components) |-> Component_from_dict(components[i]).val]]

\* Entity::from_dict
Entity_from_dict(dict) ==
    [ok |-> dict.components.present => components_from_dict(dict.components.val).ok,
     val |-> Entity(IF dict.class_name.present THEN dict.class_name.val ELSE JPSGeneralEntity,
                    dict.name,
                    ID_from_u32(as_u32(dict.link_id)),
                    IF dict.master_link_id.present
                    THEN ID_from_u32(as_u32(dict.master_link_id.val)) ELSE Zeros(16),
                    IF dict.unknown.present THEN as_u32(dict.unknown.val) ELSE Dig(0, 4),
                    IF dict.unknown_em2.present THEN as_u32(dict.unknown_em2.val)
                    ELSE Dig(0, 4),
                    IF dict.components.present
                    THEN components_from_dict(dict.components.val).val ELSE <<>>)]

\* the scene with the entity at merged or the entity pushed, or given up
object_merged(x, at, merged) ==
    IF ~merged.ok THEN MergePanic(x)
    ELSE IF at # 0 THEN Merged([x EXCEPT !.objects[at] = merged.val])
    ELSE Merged([x EXCEPT !.objects = Append(@, merged.val)])

\* the entity of the name, whatever the case, is merged, or the patch entity pushed
merge_object(x, object) ==
    LET at == first_index(x.objects,
                          LAMBDA e : to_lowercase(e.name) = to_lowercase(object.name))
    IN  IF at # 0 THEN object_merged(x, at, Entity_merge_in_dict(x.objects[at], object))
        ELSE object_merged(x, 0, Entity_from_dict(object))

RECURSIVE merge_objects(_, _, _)
\* for object in dict["objects"].as_array().unwrap()
merge_objects(x, objects, i) ==
    IF ~x.ok \/ i > Len(objects) THEN x
    ELSE merge_objects(merge_object(x.val, objects[i]), objects, i + 1)

\* mutant of merge_scene_id: the id is pushed whether it is found or not
merge_scene_id_push(x, id) ==
    IF \E i \in 1..Len(x.scene) : ~ID_to_u32(x.scene[i]).ok THEN MergePanic(x)
    ELSE Merged([x EXCEPT !.scene = Append(@, ID_from_u32(as_u32(id)))])

\* self_id.to_u32() == id.as_u64().unwrap() as u32, for the ids up to the
\* one found; the id is pushed if none is
merge_scene_id(x, id) ==
    LET at == first_index(x.scene, LAMBDA self_id : ID_to_u32(self_id).val = as_u32(id))
    IN  IF \E i \in 1..Len(x.scene) :
              (at = 0 \/ i <= at) /\ ~ID_to_u32(x.scene[i]).ok
        THEN MergePanic(x)
        ELSE IF at # 0 THEN Merged(x)
        ELSE Merged([x EXCEPT !.scene = Append(@, ID_from_u32(as_u32(id)))])

RECURSIVE merge_scene(_, _, _)
\* for id in dict["scene"].as_array().unwrap()
merge_scene(x, scene, i) ==
    IF ~x.ok \/ i > Len(scene) THEN x
    ELSE merge_scene(merge_scene_id(x.val, scene[i]), scene, i + 1)

\* the string is pushed if no em2 extra string is equal to it
merge_extra_string(x, string) ==
    IF first_index(x.em2_extra_strings, LAMBDA self_string : self_string = string) # 0
    THEN x
    ELSE [x EXCEPT !.em2_extra_strings = Append(@, string)]

RECURSIVE merge_extra_strings(_, _, _)
\* for string in dict["em2_extra_strings"].as_array().unwrap()
merge_extra_strings(x, strings, i) ==
    IF i > Len(strings) THEN x
    ELSE merge_extra_strings(merge_extra_string(x, strings[i]), strings, i + 1)

\* SceneFileVersion::from_u32
SceneFileVersion_from_u32(version) ==
    IF version = Dig(1, 4) THEN [ok |-> TRUE, val |-> "Version1"]
    ELSE IF version = Dig(2, 4) THEN [ok |-> TRUE, val |-> "Version2Prototype"]
    ELSE IF version = Dig(3, 4) THEN [ok |-> TRUE, val |-> "Version2"]
    ELSE [ok |-> FALSE, val |-> ""]

\* the dict of a scene: every key is optional
SceneDict(objects, scene, em2_extra_strings, unique_id, version) ==
    [objects |-> objects, scene |-> scene, em2_extra_strings |-> em2_extra_strings,
     unique_id |-> unique_id, version |-> version]

merge_version(x, dict) ==
    IF ~x.ok \/ ~dict.version.present THEN x
    ELSE IF SceneFileVersion_from_u32(as_u32(dict.version.val)).ok
    THEN Merged([x.val EXCEPT
                   !.version = SceneFileVersion_from_u32(as_u32(dict.version.val)).val])
    ELSE MergePanic(x.val)

merge_unique_id(x, dict) ==
    IF ~x.ok \/ ~dict.unique_id.present THEN x
    ELSE IF ID_from_string(dict.unique_id.val).ok
    THEN Merged([x.val EXCEPT !.unique_id = ID_from_string(dict.unique_id.val).val])
    ELSE MergePanic(x.val)

merge_em2(x, dict) ==
    IF ~x.ok \/ ~dict.em2_extra_strings.present THEN x
    ELSE Merged(merge_extra_strings(x.val, dict.em2_extra_strings.val, 1))

merge_refs(x, dict) ==
    IF ~x.ok \/ ~dict.scene.present THEN x ELSE merge_scene(x, dict.scene.val, 1)

merge_entities(x, dict) ==
    IF dict.objects.present THEN merge_objects(Merged(x), dict.objects.val, 1) ELSE Merged(x)

\* SceneFile::merge_in_dict
SceneFile_merge_in_dict(x, dict) ==
    merge_version(merge_unique_id(merge_em2(merge_refs(merge_entities(x, dict), dict), dict),
                                  dict), dict)

(***************************************************************************)
(* A component with a property p is merged with the dict of a component of *)
(* the same class whose properties hold a patch for p.  pak holds the      *)
(* outcome.                                                                *)
(***************************************************************************)
JInt(n) == JNumber(FALSE, Number(Dig(n, 4)))

\* the values of the existing property p: scalars and lists
ExistingValues == {JInt(1), JBool(TRUE), JArray(<<JInt(1), JInt(2), JInt(3)>>), JArray(<<>>)}

\* the values of the patch for p
PatchValues == {JInt(7), JArray(<<JInt(4), JInt(5)>>), JArray(<<JInt(4)>>), JArray(<<>>)}

\* an Integer property of no flag
IntegerProperty(name, value) == Property(T_Integer, name, FALSE, FALSE, FALSE, value)

\* the properties beside p: none, or q
ExistingProperties(value) ==
    {<<IntegerProperty(<<112>>, value)>>,
     <<IntegerProperty(<<113>>, JInt(0)), IntegerProperty(<<112>>, value)>>}

\* the patch for p alone, or before or behind a property r that is new
PatchProperties(value) ==
    {<<IntegerProperty(<<112>>, value)>>,
     <<IntegerProperty(<<114>>, JInt(8)), IntegerProperty(<<112>>, value)>>,
     <<IntegerProperty(<<112>>, value), IntegerProperty(<<114>>, JArray(<<JInt(8)>>))>>}

PropertyMergeInit ==
    /\ \E value \in ExistingValues : \E patched \in PatchValues :
       \E properties \in ExistingProperties(value) : \E patch \in PatchProperties(patched) :
          inp = [c |-> Component(<<88>>, <<88>>, Zeros(16), ID_from_u32(Dig(3, 4)),
                                 Zeros(16), properties),
                 dict |-> ComponentDict(<<88>>, Absent, <<48>>, Number(Dig(3, 4)), Absent,
                                        Present(patch))]
    /\ pak = Merged(inp.c)
    /\ bin = <<>>
    /\ pc = "new"
    /\ fm = new(<<>>, "BIG", "OVERWRITE")
    /\ last = NoOp
    /\ nops = 0
    /\ mark = 0

\* c.merge_in_dict(dict) has returned, or panicked
ComponentMergeInDict ==
    /\ pc = "new"
    /\ pak' = Component_merge_in_dict(inp.c, inp.dict)
    /\ pc' = IF pak'.ok THEN "merged" ELSE "panicked"
    /\ last' = [op |-> "Component::merge_in_dict", arg |-> inp.dict, pre |-> inp.c,
                ret |-> [ok |-> pak'.ok]]
    /\ nops' = nops + 1
    /\ UNCHANGED <<fm, mark, bin, inp>>

PropertyMergeNext == ComponentMergeInDict

SpecPropertyMerge == PropertyMergeInit /\ [][PropertyMergeNext]_vars

\* the property p of a list of properties
NamedP(properties) == properties[CHOOSE i \in 1..Len(properties) : properties[i].name = <<112>>]

\* C19: merging a patch property into the existing property of its name
\* appends the values of a patch list to an existing list, replaces an
\* existing scalar by the patch value whatever its shape, and never fails.
C19_PropertyMerge ==
    pc \in {"merged", "panicked"} =>
        /\ pak.ok
        /\ (is_array(NamedP(inp.c.properties).value)
              /\ is_array(NamedP(inp.dict.properties.val).value)) =>
               NamedP(pak.val.properties).value =
                   JArray(NamedP(inp.c.properties).value.items
                          \o NamedP(inp.dict.properties.val).value.items)
        /\ ~is_array(NamedP(inp.c.properties).value) =>
               NamedP(pak.val.properties).value = NamedP(inp.dict.properties.val).value

(***************************************************************************)
(* A scene is merged with the dict of a scene, and with the same dict once *)
(* more.  pak holds the outcome, mark the scene before the last merge.     *)
(***************************************************************************)
\* the scene references and the em2 extra strings before the merge
SceneRefs == {<<>>, <<Dig(7, 4)>>, <<Dig(7, 4), Dig(8, 4)>>, <<Dig(8, 4), Dig(8, 4)>>}

ExtraStrings == {<<>>, <<<<120>>>>, <<<<120>>, <<>>>>}

\* an optional list of up to MaxPatch members
PatchList(members) ==
    {Absent} \cup {Present(list) : list \in UNION {[1..n -> members] : n \in 0..MaxPatch}}

\* the entity "A" of the scene, with a list property p
MergeEntity ==
    Entity(JPSGeneralEntity, <<65>>, ID_from_u32(Dig(1, 4)), Zeros(16), Dig(0, 4), Dig(0, 4),
           <<Component(<<88>>, <<88>>, Zeros(16), ID_from_u32(Dig(3, 4)), Zeros(16),
                       <<IntegerProperty(<<112>>, JArray(<<JInt(1)>>))>>)>>)

\* no objects, a new entity "B", or a patch of p for "a"
PatchObjects ==
    {Absent,
     Present(<<EntityDict(Absent, <<66>>, Number(Dig(2, 4)), Absent, Absent, Absent, Absent)>>),
     Present(<<EntityDict(Absent, <<97>>, Number(Dig(1, 4)), Absent, Absent, Absent,
                  Present(<<ComponentDict(<<88>>, Absent, <<48>>, Number(Dig(3, 4)), Absent,
                      Present(<<IntegerProperty(<<112>>, JArray(<<JInt(4)>>))>>))>>))>>)}

\* no unique id and version, or both
PatchIds ==
    {[unique_id |-> Absent, version |-> Absent],
     [unique_id |-> Present(ID_to_string(Zeros(15) \o <<9>>, 16)),
      version |-> Present(Number(Dig(3, 4)))]}

SceneMergeInit ==
    /\ \E scene \in SceneRefs : \E strings \in ExtraStrings :
       \E objects \in PatchObjects : \E ids \in PatchIds :
       \E refs \in PatchList({Number(Dig(7, 4)), Number(Dig(9, 4))}) :
       \E extra \in PatchList({<<120>>, <<121>>}) :
          inp = [x |-> SceneFile(<<MergeEntity>>,
                                 [i \in 1..Len(scene) |-> ID_from_u32(scene[i])],
                                 strings, Zeros(16), "Version2Prototype"),
                 dict |-> SceneDict(objects, refs, extra, ids.unique_id, ids.version)]
    /\ pak = Merged(inp.x)
    /\ mark = inp.x
    /\ bin = <<>>
    /\ pc = "new"
    /\ fm = new(<<>>, "BIG", "OVERWRITE")
    /\ last = NoOp
    /\ nops = 0

\* the scene in hand is merged with the dict
SceneMerged(done) ==
    /\ pak' = SceneFile_merge_in_dict(pak.val, inp.dict)
    /\ mark' = pak.val
    /\ pc' = IF pak'.ok THEN done ELSE "panicked"
    /\ last' = [op |-> "SceneFile::merge_in_dict", arg |-> inp.dict, pre |-> pak.val,
                ret |-> [ok |-> pak'.ok]]
    /\ nops' = nops + 1
    /\ UNCHANGED <<fm, bin, inp>>

SceneMergeInDict == pc = "new" /\ SceneMerged("merged")

SceneMergeAgain == pc = "merged" /\ SceneMerged("merged again")

SceneMergeNext == SceneMergeInDict \/ SceneMergeAgain

SpecSceneMerge == SceneMergeInit /\ [][SceneMergeNext]_vars

IsPrefix(a, b) == Len(a) <= Len(b) /\ SubSeq(b, 1, Len(a)) = a

NoneTwice(list) == \A i \in 1..Len(list) : \A j \in 1..Len(list) : list[i] = list[j] => i = j

Members(list) == {list[i] : i \in 1..Len(list)}

\* the members of an optional list of the patch
PatchMembers(list) == IF list.present THEN Members(list.val) ELSE {}

\* the list after the merge is a union of the list before and the patch
IsUnion(before, after, patch) ==
    /\ IsPrefix(before, after)
    /\ patch \subseteq Members(after)
    /\ NoneTwice(before) => NoneTwice(after)

\* C20: after merge_in_dict(patch) the scene references and the em2 extra
\* strings each keep their members as a prefix, hold every member of the
\* patch, and hold no value twice if they held none twice before; a second
\* merge of the same patch leaves both as they are.
C20_MergeUnion ==
    /\ pc \in {"merged", "merged again"} =>
          /\ IsUnion(mark.scene, pak.val.scene,
                     {ID_from_u32(as_u32(id)) : id \in PatchMembers(inp.dict.scene)})
          /\ IsUnion(mark.em2_extra_strings, pak.val.em2_extra_strings,
                     PatchMembers(inp.dict.em2_extra_strings))
    /\ pc = "merged again" =>
          /\ pak.val.scene = mark.scene
          /\ pak.val.em2_extra_strings = mark.em2_extra_strings

\* the patch 9, 9 and "y", "x" has been merged twice into 7 and "x"
C20_Witness ==
    /\ pc = "merged again"
    /\ inp.x.scene = <<ID_from_u32(Dig(7, 4))>>
    /\ inp.dict.scene = Present(<<Number(Dig(9, 4)), Number(Dig(9, 4))>>)
    /\ inp.x.em2_extra_strings = <<<<120>>>>
    /\ inp.dict.em2_extra_strings = Present(<<<<121>>, <<120>>>>)
    /\ pak.val.scene = <<ID_from_u32(Dig(7, 4)), ID_from_u32(Dig(9, 4))>>
    /\ pak.val.em2_extra_strings = <<<<120>>, <<121>>>>

(***************************************************************************)
(* Component::from_dict of the dict of a component.  pak holds the         *)
(* outcome.                                                                *)
(***************************************************************************)
JPSTransformationComponent ==
    <<74, 80, 83, 84, 114, 97, 110, 115, 102, 111, 114, 109, 97, 116, 105, 111, 110, 67, 111, 109, 112, 111, 110, 101, 110, 116>>

\* class names of the table and others
ComponentClasses == {NiLightComponent, JPSTransformationComponent, <<88>>, <<>>}

\* no "name" key, or one holding a name of the table, of another class or of none
ComponentNames ==
    {Absent, Present(get_name_for_class_name(NiLightComponent)),
     Present(get_name_for_class_name(JPSTransformationComponent)),
     Present(get_name_for_class_name(<<88>>)), Present(<<88>>), Present(<<>>)}

ComponentDicts ==
    {ComponentDict(class_name, name, template_id, Number(Dig(3, 4)), master_link_id,
                   properties) :
        class_name \in ComponentClasses, name \in ComponentNames,
        template_id \in {<<48>>, <<97, 44, 49, 102>>},
        master_link_id \in {Absent, Present(Number(Dig(1, 4)))},
        properties \in {Absent, Present(<<>>),
                        Present(<<Property(T_Boolean, <<112>>, FALSE, FALSE, FALSE,
                                           JBool(TRUE))>>)}}

ComponentDictInit ==
    /\ \E dict \in ComponentDicts : inp = [dict |-> dict]
    /\ pak = [ok |-> TRUE, val |-> Component(<<>>, <<>>, Zeros(16), Zeros(16), Zeros(16), <<>>)]
    /\ bin = <<>>
    /\ pc = "new"
    /\ fm = new(<<>>, "BIG", "OVERWRITE")
    /\ last = NoOp
    /\ nops = 0
    /\ mark = 0

\* Component::from_dict(dict) has returned, or panicked
ComponentFromDict ==
    /\ pc = "new"
    /\ pak' = Component_from_dict(inp.dict)
    /\ pc' = IF pak'.ok THEN "loaded" ELSE "panicked"
    /\ last' = [op |-> "Component::from_dict", arg |-> inp.dict, pre |-> <<>>,
                ret |-> [ok |-> pak'.ok]]
    /\ nops' = nops + 1
    /\ UNCHANGED <<fm, mark, bin, inp>>

ComponentDictNext == ComponentFromDict

SpecComponentDict == ComponentDictInit /\ [][ComponentDictNext]_vars

\* C21: for every component dict, with or without a "name" key and whatever
\* it holds, Component::from_dict returns a component whose name is the
\* table value of its class_name.
C21_NameFromTable ==
    pc \in {"loaded", "panicked"} =>
        pak.ok /\ pak.val.name = get_name_for_class_name(inp.dict.class_name)

(***************************************************************************)
(* Alignment of the cursor (file_manipulator.rs 397-412).                  *)
(***************************************************************************)
\* the smallest multiple of n that is >= p
next_multiple(p, n) == ((p + n - 1) \div n) * n

\* C22: after align(n) with n >= 1 the call has returned, the buffer is the
\* buffer the cursor had before and the position is the smallest multiple of
\* n that is >= the position before, for every position and buffer length
C22_AlignNextMultiple ==
    (last.op = "align" /\ last.arg[1] >= 1) =>
        /\ fm.ok
        /\ fm.data = last.pre.data
        /\ fm.pos = next_multiple(last.pre.pos, last.arg[1])

\* C23: after pad(n) with n >= 1 on a cursor at the end of its buffer the
\* buffer is the old buffer followed by m - p zero bytes and the position is
\* m, where p is the old position and m the smallest multiple of n that is
\* >= p; a cursor already on a multiple of n is not moved and nothing is
\* written
C23_PadToNextMultiple ==
    (last.op = "pad" /\ last.arg[1] >= 1 /\ last.pre.pos = Len(last.pre.data)) =>
        /\ fm.ok
        /\ fm.data = last.pre.data
                        \o Zeros(next_multiple(last.pre.pos, last.arg[1]) - last.pre.pos)
        /\ fm.pos = next_multiple(last.pre.pos, last.arg[1])

(***************************************************************************)
(* The JPS frame on its own: w_str_jps(text) on a cursor standing at the   *)
(* end of its buffer, for every text length a one-byte length can be asked *)
(* to carry (file_manipulator.rs 348-368).                                 *)
(***************************************************************************)
MaxText == 255

\* the text "aa...a" of n bytes
TextOf(n) == [i \in 1..n |-> 97]

FrameInit ==
    /\ \E n \in 0..3, e \in Endians, m \in WriteModes :
          fm = seek(new(Filler(n), e, m), n)
    /\ \E n \in 0..MaxText : inp = [text |-> TextOf(n), start |-> fm.pos, data |-> fm.data]
    /\ last = NoOp
    /\ nops = 0
    /\ pc = "at_end"
    /\ mark = 0
    /\ pak = NoPackfile
    /\ bin = <<>>

FrameWrite ==
    /\ pc = "at_end"
    /\ Call("w_str_jps", <<inp.text>>, w_str_jps(fm, inp.text), <<>>, "framed")
    /\ UNCHANGED mark

FrameNext == FrameWrite

SpecJpsFrame == FrameInit /\ [][FrameNext]_vars

\* the text_length and the size S the framing rule gives a text of n bytes
frame_text_length(n) == IF n > 0 THEN n + 1 ELSE 0

frame_size(n) == next_multiple(frame_text_length(n) + 2, 4)

\* the bytes w_str_jps appended
Emitted == SubSeq(fm.data, inp.start + 1, Len(fm.data))

\* C24: w_str_jps at the end of the buffer emits exactly S bytes, the first
\* of them is S, the second is text_length, and every byte after the text is
\* zero, for every text of 0..255 bytes
C24_JpsFrame ==
    pc = "framed" =>
        /\ fm.ok
        /\ Len(Emitted) = frame_size(Len(inp.text))
        /\ Emitted[1] = frame_size(Len(inp.text))
        /\ Emitted[2] = frame_text_length(Len(inp.text))
        /\ \A i \in (Len(inp.text) + 3)..Len(Emitted) : Emitted[i] = 0

(***************************************************************************)
(* The layout of the bytes of DCT::pack (dct.rs 132-196), read off the     *)
(* packed bytes bin of the DCT inp.x.                                      *)
(***************************************************************************)
\* the end of the footer records: header, 12 bytes a dialog entry, 8 a footer entry
record_region_end(x) == 32 + 12 * Len(x.dialog_entries) + 8 * Len(x.footer_entries)

\* the number held by the four little-endian bytes at the offset
DctU32(at) == Num(U32Of(bin, at, "LITTLE"))

\* dialog entry i is no placeholder
HasLine(i) == inp.x.dialog_entries[i].hashed_key # Dig(0, 4)

\* the entries that own a text, in entry order: where the offset field of
\* the record lies, and the text
DialogLines ==
    LET kept == SelectSeq([i \in 1..Len(inp.x.dialog_entries) |-> i], HasLine)
    IN  [k \in 1..Len(kept) |->
            [field |-> 32 + 12 * (kept[k] - 1) + 4,
             text |-> inp.x.dialog_entries[kept[k]].text]]

FooterLines ==
    [j \in 1..Len(inp.x.footer_entries) |->
        [field |-> 32 + 12 * Len(inp.x.dialog_entries) + 8 * (j - 1),
         text |-> inp.x.footer_entries[j].text]]

Lines == DialogLines \o FooterLines

\* where a reader finds the text of line k: cursor before the field + value + 1
LineTarget(k) == Lines[k].field + DctU32(Lines[k].field) + 1

RECURSIVE LinesLength(_)
\* the bytes the first k texts take, each with its NUL
LinesLength(k) == IF k = 0 THEN 0 ELSE LinesLength(k - 1) + Len(Lines[k].text) + 1

\* the text of line k and its NUL lie at the offset
LineAt(k, at) ==
    /\ at + Len(Lines[k].text) + 1 <= Len(bin)
    /\ SubSeq(bin, at + 1, at + Len(Lines[k].text) + 1) = Lines[k].text \o <<0>>

\* the records lie one behind the other from offset 32: keys and numbers
RecordsContiguous ==
    /\ \A i \in 1..Len(inp.x.dialog_entries) :
          U32Of(bin, 32 + 12 * (i - 1), "LITTLE") = inp.x.dialog_entries[i].hashed_key
    /\ \A j \in 1..Len(inp.x.footer_entries) :
          U32Of(bin, 32 + 12 * Len(inp.x.dialog_entries) + 8 * (j - 1) + 4, "LITTLE")
              = inp.x.footer_entries[j].number

\* C25 as stated: the records are contiguous from offset 32 and the first
\* text byte lies at record_region_end + 50.
C25_TextRegionAsStated ==
    (pc = "packed" /\ Len(Lines) > 0) =>
        /\ RecordsContiguous
        /\ LineTarget(1) = record_region_end(inp.x) + 50
        /\ LineAt(1, record_region_end(inp.x) + 50)

\* C25: the dialog records and then the footer records are contiguous from
\* offset 32, and the first text byte lies at offset end_offset + 50, which
\* is record_region_end + 17, where end_offset = 12 * num_dialog +
\* 8 * num_footer - 1 and record_region_end = 32 + 12 * num_dialog +
\* 8 * num_footer.
C25_TextRegion ==
    (pc = "packed" /\ Len(Lines) > 0) =>
        /\ RecordsContiguous
        /\ LineTarget(1) = record_region_end(inp.x) + 17
        /\ LineAt(1, record_region_end(inp.x) + 17)

\* two dialog entries, the first a placeholder, and a footer entry packed
C25_Witness ==
    /\ pc = "packed"
    /\ Len(inp.x.dialog_entries) = 2
    /\ ~HasLine(1)
    /\ inp.x.dialog_entries[2].text = <<104, 105>>
    /\ Len(inp.x.footer_entries) = 1
    /\ SubSeq(bin, 82, 84) = <<104, 105, 0>>

\* DF FF FF FF, then the u32s 11, 12 and 0, little-endian
Terminator == <<223, 255, 255, 255, 11, 0, 0, 0, 12, 0, 0, 0, 0, 0, 0, 0>>

\* the offset behind the NUL of the last text
LastTextEnd == LineTarget(Len(Lines)) + Len(Lines[Len(Lines)].text) + 1

\* C26 as stated: with a non-empty footer list the 16 terminator bytes follow
\* the NUL of the last footer text and are the last 16 bytes of the output.
C26_TerminatorAsStated ==
    (pc = "packed" /\ Len(inp.x.footer_entries) > 0) =>
        /\ Len(bin) = LastTextEnd + 16
        /\ SubSeq(bin, LastTextEnd + 1, LastTextEnd + 16) = Terminator

\* C26: with a non-empty footer list the 16 bytes DF FF FF FF, u32 11,
\* u32 12, u32 0 lie directly behind the last footer record, at offsets
\* record_region_end .. record_region_end + 15, one zero byte lies between
\* them and the text region, and the output ends with the NUL of the last
\* footer text.
C26_Terminator ==
    (pc = "packed" /\ Len(inp.x.footer_entries) > 0) =>
        /\ SubSeq(bin, record_region_end(inp.x) + 1, record_region_end(inp.x) + 16)
              = Terminator
        /\ bin[record_region_end(inp.x) + 17] = 0
        /\ LineTarget(1) = record_region_end(inp.x) + 17
        /\ Len(bin) = LastTextEnd
        /\ bin[Len(bin)] = 0

\* a placeholder and two footer entries packed: the terminator at 60..75
C26_Witness ==
    /\ pc = "packed"
    /\ Len(inp.x.dialog_entries) = 1
    /\ ~HasLine(1)
    /\ Len(inp.x.footer_entries) = 2
    /\ inp.x.footer_entries[2].text = <<102>>
    /\ SubSeq(bin, 61, 76) = Terminator
    /\ SubSeq(bin, Len(bin) - 1, Len(bin)) = <<102, 0>>

\* the bytes the terminator takes behind the records
terminator_size(x) == IF Len(x.footer_entries) > 0 THEN 16 ELSE 0

\* C30: in the output of DCT::pack for a DCT with at least one entry the
\* record region, the 16 terminator bytes (footer non-empty) and the text
\* bytes never overlap: the records and the terminator are intact, the texts
\* start behind them and lie back to back in entry order, each followed by
\* exactly one NUL, up to the end of the output, and the offset field of
\* every non-placeholder record decodes (cursor before the field + value + 1)
\* to the first byte of its own text.
C30_RegionsDisjoint ==
    (last.op = "DCT::to_binary"
        /\ Len(inp.x.dialog_entries) + Len(inp.x.footer_entries) >= 1) =>
        /\ pc = "packed"
        /\ RecordsContiguous
        /\ Len(inp.x.footer_entries) > 0 =>
              SubSeq(bin, record_region_end(inp.x) + 1, record_region_end(inp.x) + 16)
                  = Terminator
        /\ Len(Lines) = 0 => Len(bin) = record_region_end(inp.x)
        /\ Len(Lines) > 0 =>
              /\ LineTarget(1) >= record_region_end(inp.x) + terminator_size(inp.x)
              /\ Len(bin) = LastTextEnd
        /\ \A k \in 1..Len(Lines) :
              /\ LineAt(k, LineTarget(k))
              /\ LineTarget(k) = LineTarget(1) + LinesLength(k - 1)

\* two dialog texts and two footer texts packed behind one another
C30_Witness ==
    /\ pc = "packed"
    /\ Len(DialogLines) = 2
    /\ Len(FooterLines) = 2
    /\ Lines[1].text = <<104, 105>>
    /\ Lines[3].text = <<102>>
    /\ LineTarget(2) = LineTarget(1) + 3
    /\ LineTarget(4) = LineTarget(3) + 2

(***************************************************************************)
(* The string pool on its own: build_strings_and_map of a scene with one   *)
(* entity holding one component with at most one property                  *)
(* (scene_file.rs 1196-1232).  inp holds the scene, bin the strings data   *)
(* and pak the map.                                                        *)
(***************************************************************************)
S_E == <<69>>

S_Active == <<65, 99, 116, 105, 118, 101>>

\* "a,1f", "0", "1,2,3,4" and "ff,0,10"
TemplateIdStrings ==
    {<<97, 44, 49, 102>>, <<48>>, <<49, 44, 50, 44, 51, 44, 52>>,
     <<102, 102, 44, 48, 44, 49, 48>>}

\* a Boolean named "Active", one named as the entity, and a String whose
\* value is pooled already
PoolProperties ==
    {Property(T_Boolean, S_Active, FALSE, FALSE, FALSE, JBool(TRUE)),
     Property(T_Boolean, S_Active, FALSE, FALSE, FALSE, JBool(FALSE)),
     Property(T_Boolean, S_E, FALSE, FALSE, FALSE, JBool(TRUE)),
     Property(T_String, S_Active, FALSE, FALSE, FALSE, JString(S_E))}

PoolScene(version, name, class_name, template_id, properties) ==
    SceneFile(
        <<Entity(JPSGeneralEntity, name, ID_from_u32(Dig(1, 4)), ID_from_u32(Dig(0, 4)),
                 Dig(0, 4), Dig(0, 4),
                 <<Component(class_name, get_name_for_class_name(class_name), template_id,
                             ID_from_u32(Dig(2, 4)), ID_from_u32(Dig(1, 4)), properties)>>)>>,
        <<>>, <<>>, Dig(0, 4), version)

StringsInit ==
    /\ \E version \in Versions : \E name \in {S_E, <<70>>} :
       \E class_name \in {JPSTransformationComponent, NiLightComponent} :
       \E t \in TemplateIdStrings : \E n \in 0..1 :
       \E properties \in [1..n -> PoolProperties] :
          inp = [x |-> PoolScene(version, name, class_name, ID_from_string(t).val,
                                 properties),
                 template |-> t]
    /\ pak = <<>>
    /\ bin = <<>>
    /\ pc = "new"
    /\ fm = new(<<>>, "BIG", "OVERWRITE")
    /\ last = NoOp
    /\ nops = 0
    /\ mark = 0

\* let (strings_data, strings_offsets_map) = self.build_strings_and_map()
StringsBuilt(st) ==
    /\ bin' = st.fm.data
    /\ pak' = st.map
    /\ fm' = st.fm
    /\ pc' = IF st.fm.ok THEN "built" ELSE "panicked"
    /\ last' = [op |-> "build_strings_and_map", arg |-> <<>>, pre |-> <<>>, ret |-> <<>>]

BuildStrings ==
    /\ pc = "new"
    /\ StringsBuilt(build_strings_and_map(inp.x))
    /\ nops' = nops + 1
    /\ UNCHANGED <<inp, mark>>

StringsNext == BuildStrings

SpecStrings == StringsInit /\ [][StringsNext]_vars

RECURSIVE read_pool(_, _)
\* the JPS strings of the strings data, read one behind the other
read_pool(f, read_so_far) ==
    IF ~f.ok \/ f.pos >= Len(f.data) THEN read_so_far
    ELSE read_pool(r_str_jps(f).fm, Append(read_so_far, r_str_jps(f).val))

PoolStrings == read_pool(new(bin, "BIG", "OVERWRITE"), <<>>)

\* the scene of the example: entity "E", a JPSTransformationComponent with
\* template id "a,1f" and the Boolean property "Active" = true
ExampleScene ==
    /\ inp.x = PoolScene("Version2", S_E, JPSTransformationComponent,
                         ID_from_string(<<97, 44, 49, 102>>).val,
                         <<Property(T_Boolean, S_Active, FALSE, FALSE, FALSE, JBool(TRUE))>>)

\* C27 as stated: the pool of the example scene is "E",
\* "JPSTransformationComponent", "a,1f", "Boolean", "Active", in that order.
C27_PoolAsStated ==
    (pc = "built" /\ ExampleScene) =>
        PoolStrings = <<S_E, JPSTransformationComponent, <<97, 44, 49, 102>>,
                        T_Boolean, S_Active>>

\* C27: the pool of the example scene holds exactly the strings "E",
\* "JPSTransformationComponent", "0,0,a,1f", "Active", "Boolean", each once,
\* in that order: the template id is written as four parts and the name of
\* a property is pooled before its class name.
C27_Pool ==
    (pc = "built" /\ ExampleScene) =>
        /\ PoolStrings = <<S_E, JPSTransformationComponent,
                           <<48, 44, 48, 44, 97, 44, 49, 102>>, S_Active, T_Boolean>>
        /\ [i \in 1..Len(pak) |-> pak[i].key] = PoolStrings

\* the pool of the example scene has been built: five strings in the map
C27_Witness ==
    /\ pc = "built"
    /\ ExampleScene
    /\ Len(pak) = 5
    /\ Len(bin) > 0

(***************************************************************************)
(* Properties of a class outside the table of read_value_for_type and      *)
(* write_value_for_type (scene_file.rs 532-535, 657-670, 703-720).  The    *)
(* property is packed, or a record holding its class name, storage tag and *)
(* amount, with one word for each value, is unpacked.                      *)
(***************************************************************************)
\* "Foo", "boolean" and "Vector3": none is a name of the table
UnknownClasses ==
    {<<70, 111, 111>>, <<98, 111, 111, 108, 101, 97, 110>>,
     <<86, 101, 99, 116, 111, 114, 51>>}

\* scalars, and lists of 0, 1 and 2 values
UnknownValues ==
    {JBool(TRUE), JNumber(FALSE, Number(Dig(5, 4))), JArray(<<>>),
     JArray(<<JBool(TRUE)>>), JArray(<<JBool(TRUE), JBool(FALSE)>>)}

\* the flags Property::pack has a tag for, by the shape of the value
StorageFlags(list_mode) ==
    IF list_mode
    THEN {<<FALSE, FALSE, FALSE>>, <<TRUE, FALSE, FALSE>>, <<FALSE, FALSE, TRUE>>}
    ELSE {<<FALSE, FALSE, FALSE>>, <<TRUE, FALSE, FALSE>>, <<FALSE, TRUE, FALSE>>}

\* the strings of the property alone
PropertyStrings(p) == add_property(Strings(new(<<>>, "BIG", "OVERWRITE"), <<>>), 4, p)

\* the record of the property as a file holds it: name and class name
\* offsets, the tag, the amount and a word for each value
RecordOf(p, e) ==
    write_bytes(
        w_u32(w_data_type(w_offset(w_offset(new(<<>>, e, "OVERWRITE"),
                                            PropertyStrings(p).map, p.name),
                                   PropertyStrings(p).map, p.class_name),
                          data_type_of(is_array(p.value), p.asset, p.palette, p.template)),
              Dig(Len(values_of(p.value)), 4)),
        255, 4 * Len(values_of(p.value))).data

UnknownInit ==
    /\ \E class_name \in UnknownClasses : \E value \in UnknownValues :
       \E flags \in StorageFlags(is_array(value)) : \E e \in Endians :
          inp = [p |-> Property(class_name, <<112>>, flags[1], flags[2], flags[3], value),
                 e |-> e]
    /\ pak = [ok |-> TRUE, val |-> inp.p]
    /\ bin = Zeros(4) \o PropertyStrings(inp.p).fm.data \o RecordOf(inp.p, inp.e)
    /\ mark = 4 + Len(PropertyStrings(inp.p).fm.data)
    /\ pc = "new"
    /\ fm = new(<<>>, "BIG", "OVERWRITE")
    /\ last = NoOp
    /\ nops = 0

\* property.pack(endian, &mut strings_offsets_map) has returned, or panicked
UnknownPacked(r) ==
    /\ bin' = r.data
    /\ pc' = IF r.ok THEN "packed" ELSE "pack panicked"
    /\ last' = [op |-> "Property::pack", arg |-> inp.e, pre |-> bin, ret |-> [ok |-> r.ok]]

UnknownPack ==
    /\ pc = "new"
    /\ UnknownPacked(pack_data(Property_pack(inp.p, inp.e, PropertyStrings(inp.p).map)))
    /\ nops' = nops + 1
    /\ UNCHANGED <<fm, pak, inp, mark>>

UnknownUnpack ==
    /\ pc = "new"
    /\ \E build \in Builds :
          PropertyUnpacked(build,
              Property_unpack(seek(new(bin, inp.e, "OVERWRITE"), mark), "Version1", build))
    /\ nops' = nops + 1
    /\ UNCHANGED <<fm, bin, inp, mark>>

UnknownNext == UnknownPack \/ UnknownUnpack

SpecUnknownProperty == UnknownInit /\ [][UnknownNext]_vars

\* C28: a property whose class name is not one of the 13 table names makes
\* Property::pack fail and Property::unpack fail, for a scalar value and for
\* a list value of every length, length 0 included
C28_UnknownTypeRejected ==
    /\ pc # "packed"
    /\ pc # "unpacked"

\* "dct ", the magic of a DCT file
DctMagic == <<100, 99, 116, 32>>

\* C29: DCT::from_binary fails, returning no DCT, for every input whose
\* first 4 bytes are not the DCT magic
C29_BadMagicRejected ==
    (last.op = "DCT::from_binary" /\ SubSeq(last.arg, 1, 4) # DctMagic) =>
        /\ ~last.ret.ok
        /\ pc = "panicked"

====
